---- MODULE Spec2Model ----
(***************************************************************************)
(* Model of the configuration store (ClaudeSettings, src/config/settings)  *)
(* of claude-code-task-notifier: the settings file, its .backup sibling,   *)
(* the in-memory document of each store instance, and the operations       *)
(* load / save / mergeHooks / removeHooks / removeAllHooks.                *)
(*                                                                         *)
(* JavaScript values are represented as nodes of one uniform record shape  *)
(*   [k : kind, n : property name inside an object, s : scalar text,       *)
(*    a : children]                                                        *)
(* an object being the sequence of its own properties in insertion order.  *)
(* The text of a file is a sequence of JSON tokens; whitespace between     *)
(* tokens is not represented, so the empty sequence is the empty or        *)
(* whitespace-only file.                                                   *)
(*                                                                         *)
(* The documents enumerated below are null or plain objects, never arrays  *)
(* or strings, and a hooks property never holds a non-empty string.        *)
(***************************************************************************)
EXTENDS Integers, Sequences, FiniteSets, TLC

VARIABLES file, backup, dirExists, data, loaded, pc, nh, buf, seen, hist, last, nops,
          argument, out, platforms, os, exitCode

vars == <<file, backup, dirExists, data, loaded, pc, nh, buf, seen, hist, last, nops,
          argument, out, platforms, os, exitCode>>

(***************************************************************************)
(* JavaScript values                                                       *)
(***************************************************************************)
Node(k, s, a) == [k |-> k, n |-> "", s |-> s, a |-> a]

Undefined == Node("undefined", "", <<>>)

Null == Node("null", "", <<>>)

Bool(b) == Node("bool", IF b THEN "true" ELSE "false", <<>>)

Num(s) == Node("num", s, <<>>)

Str(s) == Node("str", s, <<>>)

Arr(items) == Node("arr", "", items)

Obj(members) == Node("obj", "", members)

Member(key, v) == [v EXCEPT !.n = key]

Val(m) == [m EXCEPT !.n = ""]

\* JavaScript truthiness: null, undefined, false, 0 and "" are falsy.
Truthy(v) ==
    CASE v.k \in {"null", "undefined"} -> FALSE
      [] v.k = "bool" -> v.s = "true"
      [] v.k = "num" -> v.s # "0"
      [] v.k = "str" -> v.s # ""
      [] OTHER -> TRUE

\* typeof v === 'object' (true of null as well)
TypeofObject(v) == v.k \in {"obj", "arr", "null"}

IsArray(v) == v.k = "arr"

\* Property access on null or undefined raises a TypeError.
Nullish(v) == v.k \in {"null", "undefined"}

IndexKey == <<"0", "1", "2", "3">>

\* Own enumerable properties, in enumeration order.  Documents of the model
\* carry no non-empty string where properties are enumerated.
OwnProps(v) ==
    CASE v.k = "obj" -> v.a
      [] v.k = "arr" -> [i \in 1..Len(v.a) |-> Member(IndexKey[i], v.a[i])]
      [] OTHER -> <<>>

Keys(v) == [i \in 1..Len(OwnProps(v)) |-> OwnProps(v)[i].n]

HasKey(v, key) == \E i \in 1..Len(OwnProps(v)) : OwnProps(v)[i].n = key

\* v[key] for a non-nullish v (undefined when there is no such property)
Get(v, key) ==
    IF HasKey(v, key)
    THEN Val(OwnProps(v)[CHOOSE i \in 1..Len(OwnProps(v)) : OwnProps(v)[i].n = key])
    ELSE Undefined

\* o[key] = x on an object: an existing key keeps its position.
SetProp(o, key, x) ==
    IF HasKey(o, key)
    THEN [o EXCEPT !.a = [i \in 1..Len(o.a) |->
                            IF o.a[i].n = key THEN Member(key, x) ELSE o.a[i]]]
    ELSE [o EXCEPT !.a = Append(o.a, Member(key, x))]

\* delete o[key] on an object
DeleteProp(o, key) ==
    IF o.k = "obj"
    THEN [o EXCEPT !.a = SelectSeq(o.a, LAMBDA m : m.n # key)]
    ELSE o

\* { ...a, ...b }
RECURSIVE AssignAll(_, _, _)
AssignAll(o, props, i) ==
    IF i > Len(props) THEN o
    ELSE AssignAll(SetProp(o, props[i].n, Val(props[i])), props, i + 1)

Spread(a, b) == AssignAll(AssignAll(Obj(<<>>), OwnProps(a), 1), OwnProps(b), 1)

\* Deep equality: objects compare by key set and values, arrays by position.
RECURSIVE DeepEqual(_, _)
DeepEqual(x, y) ==
    /\ x.k = y.k
    /\ x.s = y.s
    /\ Len(x.a) = Len(y.a)
    /\ IF x.k = "obj"
       THEN \A i \in 1..Len(x.a) :
               /\ HasKey(y, x.a[i].n)
               /\ DeepEqual(Val(x.a[i]), Get(y, x.a[i].n))
       ELSE \A i \in 1..Len(x.a) : DeepEqual(Val(x.a[i]), Val(y.a[i]))

(***************************************************************************)
(* JSON.stringify and JSON.parse                                           *)
(***************************************************************************)
Tok(t, v) == [t |-> t, v |-> v]

P(c) == Tok("p", c)

RECURSIVE Stringify(_), StringifyItems(_, _), StringifyProps(_, _)
\* JSON.stringify(x, null, 2) of a value that is not undefined
Stringify(x) ==
    CASE x.k \in {"null", "undefined"} -> <<Tok("lit", "null")>>
      [] x.k \in {"bool", "num"} -> <<Tok("lit", x.s)>>
      [] x.k = "str" -> <<Tok("str", x.s)>>
      [] x.k = "arr" -> <<P("[")>> \o StringifyItems(x.a, 1) \o <<P("]")>>
      [] OTHER ->
           <<P("{")>>
           \o StringifyProps(SelectSeq(x.a, LAMBDA m : m.k # "undefined"), 1)
           \o <<P("}")>>

StringifyItems(a, i) ==
    IF i > Len(a) THEN <<>>
    ELSE (IF i > 1 THEN <<P(",")>> ELSE <<>>)
         \o Stringify(Val(a[i])) \o StringifyItems(a, i + 1)

StringifyProps(a, i) ==
    IF i > Len(a) THEN <<>>
    ELSE (IF i > 1 THEN <<P(",")>> ELSE <<>>)
         \o <<Tok("str", a[i].n), P(":")>>
         \o Stringify(Val(a[i])) \o StringifyProps(a, i + 1)

ParseFail == [ok |-> FALSE, v |-> Null, rest |-> <<>>]

ParseOk(v, rest) == [ok |-> TRUE, v |-> v, rest |-> rest]

RECURSIVE ParseValue(_), ParseElems(_, _), ParseProps(_, _)
ParseValue(t) ==
    IF t = <<>> THEN ParseFail
    ELSE LET h == Head(t) IN
         CASE h.t = "lit" ->
                IF h.v = "null" THEN ParseOk(Null, Tail(t))
                ELSE IF h.v \in {"true", "false"}
                     THEN ParseOk(Bool(h.v = "true"), Tail(t))
                     ELSE ParseOk(Num(h.v), Tail(t))
           [] h.t = "str" -> ParseOk(Str(h.v), Tail(t))
           [] h = P("[") ->
                IF Len(t) > 1 /\ t[2] = P("]")
                THEN ParseOk(Arr(<<>>), Tail(Tail(t)))
                ELSE ParseElems(Tail(t), <<>>)
           [] h = P("{") ->
                IF Len(t) > 1 /\ t[2] = P("}")
                THEN ParseOk(Obj(<<>>), Tail(Tail(t)))
                ELSE ParseProps(Tail(t), Obj(<<>>))
           [] OTHER -> ParseFail

ParseElems(t, acc) ==
    LET r == ParseValue(t) IN
    IF ~r.ok \/ r.rest = <<>> THEN ParseFail
    ELSE IF Head(r.rest) = P(",")
         THEN ParseElems(Tail(r.rest), Append(acc, r.v))
         ELSE IF Head(r.rest) = P("]")
              THEN ParseOk(Arr(Append(acc, r.v)), Tail(r.rest))
              ELSE ParseFail

ParseProps(t, acc) ==
    IF Len(t) < 3 \/ t[1].t # "str" \/ t[2] # P(":") THEN ParseFail
    ELSE LET r == ParseValue(SubSeq(t, 3, Len(t))) IN
         IF ~r.ok \/ r.rest = <<>> THEN ParseFail
         ELSE IF Head(r.rest) = P(",")
              THEN ParseProps(Tail(r.rest), SetProp(acc, t[1].v, r.v))
              ELSE IF Head(r.rest) = P("}")
                   THEN ParseOk(SetProp(acc, t[1].v, r.v), Tail(r.rest))
                   ELSE ParseFail

\* JSON.parse(content): the whole text must be one value.
JSONParse(t) ==
    LET r == ParseValue(t) IN
    IF r.ok /\ r.rest = <<>> THEN r ELSE ParseFail

(***************************************************************************)
(* Files                                                                   *)
(***************************************************************************)
NoFile == [exists |-> FALSE, content |-> <<>>]

FileOf(content) == [exists |-> TRUE, content |-> content]

(***************************************************************************)
(* Strings: a string is the sequence of its characters                     *)
(***************************************************************************)
Range(seq) == {seq[i] : i \in 1..Len(seq)}

LowerAlpha ==
    <<"a", "b", "c", "d", "e", "f", "g", "h", "i", "j", "k", "l", "m", "n",
      "o", "p", "q", "r", "s", "t", "u", "v", "w", "x", "y", "z">>

UpperAlpha ==
    <<"A", "B", "C", "D", "E", "F", "G", "H", "I", "J", "K", "L", "M", "N",
      "O", "P", "Q", "R", "S", "T", "U", "V", "W", "X", "Y", "Z">>

\* the class of ASCII letters
Letter == Range(LowerAlpha) \cup Range(UpperAlpha)

\* the class of word characters
WordChar ==
    Letter \cup {"_"} \cup Range(<<"0", "1", "2", "3", "4", "5", "6", "7", "8", "9">>)

\* the class of white space, for the characters of the model
Space == {" ", "\t", "\n", "\r"}

ToLower(c) ==
    IF \E i \in 1..Len(UpperAlpha) : UpperAlpha[i] = c
    THEN LowerAlpha[CHOOSE i \in 1..Len(UpperAlpha) : UpperAlpha[i] = c]
    ELSE c

LowerCase(s) == [i \in 1..Len(s) |-> ToLower(s[i])]

\* s.includes(sub)
Includes(s, sub) ==
    \E i \in 1..(Len(s) - Len(sub) + 1) : SubSeq(s, i, i + Len(sub) - 1) = sub

\* s.startsWith(p)
StartsWith(s, p) == Len(p) <= Len(s) /\ SubSeq(s, 1, Len(p)) = p

\* s.endsWith(p)
EndsWith(s, p) == Len(p) <= Len(s) /\ SubSeq(s, Len(s) - Len(p) + 1, Len(s)) = p

\* a regular expression of the form  word gap* next  tested against s, where
\* gap and next are character classes
Matches(s, word, gap, next) ==
    \E i \in 1..(Len(s) - Len(word) + 1) :
       /\ SubSeq(s, i, i + Len(word) - 1) = word
       /\ \E j \in (i + Len(word))..Len(s) :
             /\ s[j] \in next
             /\ \A k \in (i + Len(word))..(j - 1) : s[k] \in gap

\* s.replace of every character of set by nothing
RemoveChars(s, set) == SelectSeq(s, LAMBDA c : c \notin set)

\* s.replace of every character of set by c
ReplaceChars(s, set, c) == [i \in 1..Len(s) |-> IF s[i] \in set THEN c ELSE s[i]]

RECURSIVE PrefixChars(_, _, _)
\* s.replace of every character of set by p and the character
PrefixChars(s, set, p) ==
    IF s = <<>> THEN <<>>
    ELSE (IF Head(s) \in set THEN p ELSE <<>>)
         \o <<Head(s)>> \o PrefixChars(Tail(s), set, p)

\* s.trim()
Trim(s) ==
    LET inked == {i \in 1..Len(s) : s[i] \notin Space} IN
    IF inked = {} THEN <<>>
    ELSE SubSeq(s, CHOOSE i \in inked : \A j \in inked : i <= j,
                   CHOOSE i \in inked : \A j \in inked : j <= i)

RECURSIVE Join(_, _)
\* lines.join(sep)
Join(lines, sep) ==
    IF lines = <<>> THEN <<>>
    ELSE IF Len(lines) = 1 THEN lines[1]
         ELSE lines[1] \o sep \o Join(Tail(lines), sep)

\* an argument that is a string, and one that is not (undefined, null, a
\* number, an object)
JsString(text) == [isString |-> TRUE, text |-> text]

NotAString == [isString |-> FALSE, text |-> <<>>]

(***************************************************************************)
(* Sanitizers, command builders and command validators                     *)
(***************************************************************************)
\* The backtick character: a string literal cannot hold it, so it has a name.
Backtick == "backtick"

\* the class of backtick, dollar sign, double quote and backslash
Stripped == {Backtick, "$", "\"", "\\"}

\* the characters the whitelist leaves in place: word characters, white
\* space and ! ? . -
SafeChar == WordChar \cup Space \cup {"!", "?", ".", "-"}

\* the class of single quote, double quote and backslash
Escaped == {"'", "\"", "\\"}

\* the replace that deletes every character outside the whitelist
KeepSafe(s) == SelectSeq(s, LAMBDA c : c \in SafeChar)

\* ValidationUtils.sanitizeInput(input)
SanitizeInput(input) ==
    IF ~input.isString THEN <<>>
    ELSE Trim(KeepSafe(RemoveChars(input.text, Stripped)))

\* ValidationUtils.sanitizeForPowerShell(input)
SanitizeForPowerShell(input) ==
    IF ~input.isString THEN <<>>
    ELSE Trim(KeepSafe(RemoveChars(PrefixChars(input.text, {"'"}, <<"'">>), Stripped)))

\* the replace that puts a backslash before each quote and backslash
EscapeForAppleScript(text) == PrefixChars(text, Escaped, <<"\\">>)

\* ValidationUtils.sanitizeForAppleScript(input)
SanitizeForAppleScript(input) ==
    IF ~input.isString THEN <<>>
    ELSE Trim(ReplaceChars(EscapeForAppleScript(input.text), {"\r", "\n"}, " "))

\* WindowsPlatform._sanitizeForPowerShell(input)
WindowsSanitizeForPowerShell(input) ==
    IF ~input.isString THEN <<>>
    ELSE KeepSafe(RemoveChars(PrefixChars(input.text, {"'"}, <<"'">>), Stripped))

MacOSText ==
    \* the template up to the action
    [ open |->
         <<"o", "s", "a", "s", "c", "r", "i", "p", "t", " ", "-", "e", " ",
           "'", "d", "i", "s", "p", "l", "a", "y", " ", "n", "o", "t", "i",
           "f", "i", "c", "a", "t", "i", "o", "n", " ", "\"", "C", "l",
           "a", "u", "d", "e", " ", "T", "a", "s", "k", " ">>,
    \* the template after the action
      close |->
         <<"!", "\"", " ", "w", "i", "t", "h", " ", "t", "i", "t", "l",
           "e", " ", "\"", "C", "l", "a", "u", "d", "e", " ", "C", "o",
           "d", "e", "\"">>,
    \* soundPart when withSound
      sound |->
         <<" ", "s", "o", "u", "n", "d", " ", "n", "a", "m", "e", " ",
           "\"", "P", "i", "n", "g", "\"">>,
    \* the closing quote
      quote |->
         <<"'">>,
    \* a closing quote followed by a double quote
      quoted |->
         <<"'", "\"">>,
    \* what validate expects a command to start with
      prefix |->
         <<"o", "s", "a", "s", "c", "r", "i", "p", "t", " ", "-", "e", " ",
           "'", "d", "i", "s", "p", "l", "a", "y", " ", "n", "o", "t", "i",
           "f", "i", "c", "a", "t", "i", "o", "n">> ]

WindowsText ==
    \* the first five statements of psCommand
    [ head |->
         <<<<"A", "d", "d", "-", "T", "y", "p", "e", " ", "-", "A", "s",
             "s", "e", "m", "b", "l", "y", "N", "a", "m", "e", " ", "S",
             "y", "s", "t", "e", "m", ".", "W", "i", "n", "d", "o", "w",
             "s", ".", "F", "o", "r", "m", "s">>,
         <<"$", "b", "a", "l", "l", "o", "o", "n", " ", "=", " ", "N",
             "e", "w", "-", "O", "b", "j", "e", "c", "t", " ", "S", "y",
             "s", "t", "e", "m", ".", "W", "i", "n", "d", "o", "w", "s",
             ".", "F", "o", "r", "m", "s", ".", "N", "o", "t", "i", "f",
             "y", "I", "c", "o", "n">>,
         <<"$", "p", "a", "t", "h", " ", "=", " ", "(", "G", "e", "t",
             "-", "P", "r", "o", "c", "e", "s", "s", " ", "-", "I", "d",
             " ", "$", "p", "i", "d", ")", ".", "P", "a", "t", "h">>,
         <<"$", "b", "a", "l", "l", "o", "o", "n", ".", "I", "c", "o",
             "n", " ", "=", " ", "[", "S", "y", "s", "t", "e", "m", ".",
             "D", "r", "a", "w", "i", "n", "g", ".", "I", "c", "o", "n",
             "]", ":", ":", "E", "x", "t", "r", "a", "c", "t", "A", "s",
             "s", "o", "c", "i", "a", "t", "e", "d", "I", "c", "o", "n",
             "(", "$", "p", "a", "t", "h", ")">>,
         <<"$", "b", "a", "l", "l", "o", "o", "n", ".", "B", "a", "l",
             "l", "o", "o", "n", "T", "i", "p", "I", "c", "o", "n", " ",
             "=", " ", "[", "S", "y", "s", "t", "e", "m", ".", "W", "i",
             "n", "d", "o", "w", "s", ".", "F", "o", "r", "m", "s", ".",
             "T", "o", "o", "l", "T", "i", "p", "I", "c", "o", "n", "]",
             ":", ":", "W", "a", "r", "n", "i", "n", "g">>>>,
    \* the statement that assigns BalloonTipText, up to the message
      tipText |->
         <<"$", "b", "a", "l", "l", "o", "o", "n", ".", "B", "a", "l", "l",
           "o", "o", "n", "T", "i", "p", "T", "e", "x", "t", " ", "=", " ",
           "'">>,
    \* the statement that assigns BalloonTipTitle, up to the title
      tipTitle |->
         <<"$", "b", "a", "l", "l", "o", "o", "n", ".", "B", "a", "l", "l",
           "o", "o", "n", "T", "i", "p", "T", "i", "t", "l", "e", " ", "=",
           " ", "'">>,
    \* the last two statements of psCommand
      tail |->
         <<<<"$", "b", "a", "l", "l", "o", "o", "n", ".", "V", "i", "s",
             "i", "b", "l", "e", " ", "=", " ", "$", "t", "r", "u", "e">>,
         <<"$", "b", "a", "l", "l", "o", "o", "n", ".", "S", "h", "o",
             "w", "B", "a", "l", "l", "o", "o", "n", "T", "i", "p", "(",
             "5", "0", "0", "0", ")">>>>,
    \* the separator of join
      sep |->
         <<";", " ">>,
    \* the quote that closes a PowerShell string
      quote |->
         <<"'">>,
    \* Claude Code
      title |->
         <<"C", "l", "a", "u", "d", "e", " ", "C", "o", "d", "e">>,
    \* Claude Task, before the action
      task |->
         <<"C", "l", "a", "u", "d", "e", " ", "T", "a", "s", "k", " ">>,
    \* the exclamation mark after the action
      bang |->
         <<"!">>,
    \* the invocation up to psCommand
      prefix |->
         <<"p", "o", "w", "e", "r", "s", "h", "e", "l", "l", " ", "-", "N",
           "o", "P", "r", "o", "f", "i", "l", "e", " ", "-", "C", "o", "m",
           "m", "a", "n", "d", " ", "\"">>,
    \* the closing double quote
      closing |->
         <<"\"">>,
    \* New-Object
      newObject |->
         <<"N", "e", "w", "-", "O", "b", "j", "e", "c", "t">>,
    \* System.Windows.Forms.NotifyIcon
      notifyIcon |->
         <<"S", "y", "s", "t", "e", "m", ".", "W", "i", "n", "d", "o", "w",
           "s", ".", "F", "o", "r", "m", "s", ".", "N", "o", "t", "i", "f",
           "y", "I", "c", "o", "n">>,
    \* IEX, in lower case
      iex |->
         <<"i", "e", "x">>,
    \* the dangerous patterns that are plain words
      dangerous |->
         <<<<"I", "n", "v", "o", "k", "e", "-", "E", "x", "p", "r", "e",
             "s", "s", "i", "o", "n">>,
         <<"D", "o", "w", "n", "l", "o", "a", "d">>,
         <<"W", "e", "b", "C", "l", "i", "e", "n", "t">>,
         <<"S", "t", "a", "r", "t", "-", "P", "r", "o", "c", "e", "s", "s">>,
         <<"$", "e", "n", "v", ":">>,
         <<"r", "e", "g", "i", "s", "t", "r", "y">>,
         <<"G", "e", "t", "-", "C", "r", "e", "d", "e", "n", "t", "i",
             "a", "l">>>> ]

ChainText ==
    \* semicolon
    [ semicolon |->
         <<";">>,
    \* pipe
      pipe |->
         <<"|">>,
    \* and-and
      andAnd |->
         <<"&", "&">>,
    \* or-or
      orOr |->
         <<"|", "|">> ]

SoundText ==
    \* sound name
    [ soundName |->
         <<"s", "o", "u", "n", "d", " ", "n", "a", "m", "e">>,
    \* with sound
      withSound |->
         <<"w", "i", "t", "h", " ", "s", "o", "u", "n", "d">> ]

Thrown == [thrown |-> TRUE, text |-> <<>>]

Returned(text) == [thrown |-> FALSE, text |-> text]

\* a builder that puts the sound part in every command
MacOSCreateCommandAlwaysSound(action, withSound) ==
    IF ~action.isString \/ action.text = <<>> THEN Thrown
    ELSE Returned(MacOSText.open \o EscapeForAppleScript(action.text)
                  \o MacOSText.close \o MacOSText.sound \o MacOSText.quote)

\* MacOSPlatform.createCommand(action, withSound)
MacOSCreateCommand(action, withSound) ==
    IF ~action.isString \/ action.text = <<>> THEN Thrown
    ELSE Returned(MacOSText.open \o EscapeForAppleScript(action.text)
                  \o MacOSText.close
                  \o (IF withSound THEN MacOSText.sound ELSE <<>>)
                  \o MacOSText.quote)

\* WindowsPlatform.createCommand(action, withSound)
WindowsCreateCommand(action, withSound) ==
    IF ~action.isString \/ action.text = <<>> THEN Thrown
    ELSE LET sanitizedAction == WindowsSanitizeForPowerShell(action)
             message == WindowsText.task \o sanitizedAction \o WindowsText.bang
             psCommand ==
                 Join(WindowsText.head
                      \o << WindowsText.tipText
                            \o WindowsSanitizeForPowerShell(JsString(message))
                            \o WindowsText.quote,
                            WindowsText.tipTitle
                            \o WindowsSanitizeForPowerShell(JsString(WindowsText.title))
                            \o WindowsText.quote >>
                      \o WindowsText.tail,
                      WindowsText.sep)
         IN  Returned(WindowsText.prefix \o psCommand \o WindowsText.closing)

\* a validator that looks for command chaining after a semicolon only
ChainedSemicolonOnly(s) == Matches(s, ChainText.semicolon, Space, Letter)

\* dangerousPatterns.some(pattern => pattern.test(command)) of
\* NotificationPlatform.validate: an operator, any white space, a letter
Chained(s) ==
    \/ Matches(s, ChainText.semicolon, Space, Letter)
    \/ Matches(s, ChainText.pipe, Space, Letter)
    \/ Matches(s, ChainText.andAnd, Space, Letter)
    \/ Matches(s, ChainText.orOr, Space, Letter)

\* NotificationPlatform.validate(command)
BaseValidate(command) ==
    /\ command.isString
    /\ command.text # <<>>
    /\ ~Chained(command.text)

\* MacOSPlatform.validate(command)
MacOSValidate(command) ==
    /\ BaseValidate(command)
    /\ StartsWith(command.text, MacOSText.prefix)
    /\ EndsWith(command.text, MacOSText.quote) \/ EndsWith(command.text, MacOSText.quoted)

\* dangerousPatterns.some(pattern => pattern.test(command)) of
\* WindowsPlatform.validate; every pattern ignores case
WindowsDangerous(s) ==
    \/ \E n \in 1..Len(WindowsText.dangerous) :
          Includes(LowerCase(s), LowerCase(WindowsText.dangerous[n]))
    \/ Matches(LowerCase(s), WindowsText.iex, {}, Space)

\* WindowsPlatform.validate(command)
WindowsValidate(command) ==
    /\ BaseValidate(command)
    /\ StartsWith(command.text, WindowsText.prefix)
    /\ EndsWith(command.text, WindowsText.closing)
    /\ ~(/\ Includes(command.text, WindowsText.newObject)
         /\ ~Includes(command.text, WindowsText.notifyIcon))
    /\ ~WindowsDangerous(command.text)

Platforms == {"macos", "windows"}

\* the createCommand and the validate of the platform with the given id
CreateCommandOn(platform, action, withSound) ==
    IF platform = "macos" THEN MacOSCreateCommand(action, withSound)
    ELSE WindowsCreateCommand(action, withSound)

ValidateOn(platform, command) ==
    IF platform = "macos" THEN MacOSValidate(command) ELSE WindowsValidate(command)

(***************************************************************************)
(* PlatformRegistry: a Map is the sequence of its entries in insertion     *)
(* order                                                                   *)
(***************************************************************************)
\* the static field platforms as the class initialises it
InitialPlatforms ==
    << [name |-> "macos", cls |-> "MacOSPlatform"],
       [name |-> "windows", cls |-> "WindowsPlatform"] >>

\* PlatformClass.isSupported() where process.platform is os
IsSupported(cls, o) ==
    \/ cls = "MacOSPlatform" /\ o = "darwin"
    \/ cls = "WindowsPlatform" /\ o = "win32"

\* a set that moves an entry it overwrites to the end
MapSetMovesLast(m, name, cls) ==
    SelectSeq(m, LAMBDA e : e.name # name) \o <<[name |-> name, cls |-> cls]>>

\* Map.prototype.set: an existing key keeps its place, a new key goes last
MapSet(m, name, cls) ==
    IF \E i \in 1..Len(m) : m[i].name = name
    THEN [i \in 1..Len(m) |-> IF m[i].name = name
                                THEN [name |-> name, cls |-> cls] ELSE m[i]]
    ELSE Append(m, [name |-> name, cls |-> cls])

\* the entries of m whose class supports the system
SupportedAt(m, o) == {i \in 1..Len(m) : IsSupported(m[i].cls, o)}

\* PlatformRegistry.getSupportedPlatform(): the class returned, or thrown
GetSupportedPlatform(m, o) ==
    IF SupportedAt(m, o) = {} THEN [thrown |-> TRUE, cls |-> ""]
    ELSE [thrown |-> FALSE,
          cls |-> m[CHOOSE i \in SupportedAt(m, o) :
                       \A j \in SupportedAt(m, o) : i <= j].cls]

\* PlatformRegistry.isAnyPlatformSupported()
IsAnyPlatformSupported(m, o) == ~GetSupportedPlatform(m, o).thrown

(***************************************************************************)
(* ClaudeSettings: the pure part of each method                            *)
(***************************************************************************)
Outcome(err, why, key) == [err |-> err, why |-> why, key |-> key]

Done == Outcome("", "", "")

RECURSIVE ValidateItems(_, _, _), ValidateEntries(_, _)
\* for (const hookItem of hookConfig) ...
ValidateItems(items, j, hookName) ==
    IF j > Len(items) THEN Done
    ELSE LET hookItem == Val(items[j]) IN
         IF Nullish(hookItem) THEN Outcome("TypeError", "hookItem.hooks", hookName)
         ELSE IF ~Truthy(Get(hookItem, "hooks")) \/ ~IsArray(Get(hookItem, "hooks"))
              THEN Outcome("validate", "items must have a hooks array", hookName)
              ELSE ValidateItems(items, j + 1, hookName)

\* for (const [hookName, hookConfig] of Object.entries(data.hooks)) ...
ValidateEntries(entries, i) ==
    IF i > Len(entries) THEN Done
    ELSE LET hookConfig == Val(entries[i]) IN
         IF ~IsArray(hookConfig)
         THEN Outcome("validate", "must be an array", entries[i].n)
         ELSE LET r == ValidateItems(hookConfig.a, 1, entries[i].n) IN
              IF r.err # "" THEN r ELSE ValidateEntries(entries, i + 1)

\* _validateSettings(data): the first violation in iteration order
ValidateSettings(d) ==
    IF d.k = "null" \/ ~TypeofObject(d)
    THEN Outcome("validate", "Settings data must be an object", "")
    ELSE LET hooks == Get(d, "hooks") IN
         IF ~Truthy(hooks) THEN Done
         ELSE IF ~TypeofObject(hooks)
              THEN Outcome("validate", "hooks must be an object", "")
              ELSE ValidateEntries(OwnProps(hooks), 1)

Result(o, d) == [err |-> o.err, why |-> o.why, key |-> o.key, data |-> d]

\* a load that hands the empty text to the parser
LoadResultEmptyParsed(d, f, readFails) ==
    IF f.exists
    THEN IF readFails THEN Result(Outcome("read", "readFileSync", ""), d)
         ELSE LET r == JSONParse(f.content) IN
              IF r.ok THEN Result(Done, r.v)
              ELSE Result(Outcome("parse", "Invalid JSON", ""), d)
    ELSE Result(Done, Obj(<<>>))

\* a load that reads the file without asking whether it exists
LoadResultMissingFails(d, f, readFails) ==
    IF ~f.exists \/ readFails THEN Result(Outcome("read", "readFileSync", ""), d)
    ELSE IF f.content = <<>> THEN Result(Done, Obj(<<>>))
         ELSE LET r == JSONParse(f.content) IN
              IF r.ok THEN Result(Done, r.v)
              ELSE Result(Outcome("parse", "Invalid JSON", ""), d)

\* a load that drops the document when it fails
LoadResultFailClears(d, f, readFails) ==
    IF f.exists
    THEN IF readFails THEN Result(Outcome("read", "readFileSync", ""), Null)
         ELSE IF f.content = <<>> THEN Result(Done, Obj(<<>>))
              ELSE LET r == JSONParse(f.content) IN
                   IF r.ok THEN Result(Done, r.v)
                   ELSE Result(Outcome("parse", "Invalid JSON", ""), Null)
    ELSE Result(Done, Obj(<<>>))

\* load(): readFails is the environment's choice for readFileSync.  On an
\* error the in-memory document is the one passed in.
LoadResult(d, f, readFails) ==
    IF f.exists
    THEN IF readFails THEN Result(Outcome("read", "readFileSync", ""), d)
         ELSE IF f.content = <<>> THEN Result(Done, Obj(<<>>))
              ELSE LET r == JSONParse(f.content) IN
                   IF r.ok THEN Result(Done, r.v)
                   ELSE Result(Outcome("parse", "Invalid JSON", ""), d)
    ELSE Result(Done, Obj(<<>>))

\* a merge in which the events already installed win
MergedHooksOldWins(hooks, newHooks) == Spread(newHooks, hooks)

\* a merge that assigns newHooks in place of the installed events
MergedHooksAssigned(hooks, newHooks) == newHooks

\* this.data.hooks = { ...this.data.hooks, ...newHooks }
MergedHooks(hooks, newHooks) == Spread(hooks, newHooks)

\* a merge that puts the document back when the merged one is not valid
MergeDocRollsBack(d, newHooks) ==
    IF ~Truthy(newHooks) \/ ~TypeofObject(newHooks)
    THEN Result(Outcome("mergeHooks", "newHooks must be an object", ""), d)
    ELSE IF d.k # "obj"
         THEN Result(Outcome("TypeError", "this.data.hooks", ""), d)
         ELSE LET d1 == IF ~Truthy(Get(d, "hooks"))
                        THEN SetProp(d, "hooks", Obj(<<>>)) ELSE d
                  d2 == SetProp(d1, "hooks", MergedHooks(Get(d1, "hooks"), newHooks))
              IN  IF ValidateSettings(d2).err = "" THEN Result(Done, d2)
                  ELSE Result(ValidateSettings(d2), d)

\* mergeHooks(newHooks) once the store is loaded with document d
MergeDoc(d, newHooks) ==
    IF ~Truthy(newHooks) \/ ~TypeofObject(newHooks)
    THEN Result(Outcome("mergeHooks", "newHooks must be an object", ""), d)
    ELSE IF d.k # "obj"
         \* this.data.hooks on null, or an assignment to a property of a
         \* primitive in module (strict) code
         THEN Result(Outcome("TypeError", "this.data.hooks", ""), d)
         ELSE LET d1 == IF ~Truthy(Get(d, "hooks"))
                        THEN SetProp(d, "hooks", Obj(<<>>)) ELSE d
                  d2 == SetProp(d1, "hooks", MergedHooks(Get(d1, "hooks"), newHooks))
              IN  Result(ValidateSettings(d2), d2)

RECURSIVE DeleteNamed(_, _, _)
\* for (const hookName of hookNames) if (hooks[hookName]) delete hooks[hookName]
DeleteNamed(hooks, hookNames, i) ==
    IF i > Len(hookNames) THEN hooks
    ELSE DeleteNamed(IF Truthy(Get(hooks, hookNames[i]))
                     THEN DeleteProp(hooks, hookNames[i]) ELSE hooks,
                     hookNames, i + 1)

\* removeAllHooks() once the store is loaded with document d
RemoveAllDoc(d) ==
    IF Nullish(d) THEN Result(Outcome("TypeError", "this.data.hooks", ""), d)
    ELSE LET d1 == IF Truthy(Get(d, "hooks")) THEN DeleteProp(d, "hooks") ELSE d
         IN  Result(ValidateSettings(d1), d1)

\* a removal that cleans up the empty hooks object before it deletes
RemoveDocCleanupFirst(d, hookNames) ==
    IF Nullish(d) THEN Result(Outcome("TypeError", "this.data.hooks", ""), d)
    ELSE IF ~Truthy(Get(d, "hooks")) THEN Result(Done, d)
         ELSE LET d1 == IF Len(Keys(Get(d, "hooks"))) = 0
                        THEN DeleteProp(d, "hooks") ELSE d
                  d2 == IF HasKey(d1, "hooks")
                        THEN SetProp(d1, "hooks",
                                     DeleteNamed(Get(d1, "hooks"), hookNames, 1))
                        ELSE d1
              IN  Result(ValidateSettings(d2), d2)

\* a removal that drops the hooks key whatever the names
RemoveDocEverything(d, hookNames) == RemoveAllDoc(d)

\* removeHooks(hookNames) once the store is loaded with document d
RemoveDoc(d, hookNames) ==
    IF Nullish(d) THEN Result(Outcome("TypeError", "this.data.hooks", ""), d)
    ELSE IF ~Truthy(Get(d, "hooks")) THEN Result(Done, d)
         ELSE LET hooks == DeleteNamed(Get(d, "hooks"), hookNames, 1)
                  d1 == SetProp(d, "hooks", hooks)
                  d2 == IF Len(Keys(hooks)) = 0 THEN DeleteProp(d1, "hooks") ELSE d1
              IN  Result(ValidateSettings(d2), d2)

\* getInstalledHookNames() on a loaded store with a non-nullish document
InstalledHookNames(d) ==
    IF Truthy(Get(d, "hooks")) THEN Keys(Get(d, "hooks")) ELSE <<>>

\* the hooks map of a document (undefined when the document has none)
HooksIn(d) == IF Nullish(d) THEN Undefined ELSE Get(d, "hooks")

\* what a query returns: how it ended and the value returned
Answer(o, v) == [err |-> o.err, why |-> o.why, key |-> o.key, ans |-> v]

NotLoadedError == Answer(Outcome("notLoaded", "Settings not loaded", ""), Undefined)

NullDocumentError == Answer(Outcome("TypeError", "this.data.hooks", ""), Undefined)

\* a guard that is content with a document set by save(data)
MustLoadUnlessData(ld, d) == ~ld /\ d = Null

\* if (!this._loaded) throw ..., the guard of every query
MustLoad(ld, d) == ~ld

\* getData()
GetData(ld, d) == IF MustLoad(ld, d) THEN NotLoadedError ELSE Answer(Done, d)

\* getHooks(): this.data.hooks ?? {}
GetHooks(ld, d) ==
    IF MustLoad(ld, d) THEN NotLoadedError
    ELSE IF Nullish(d) THEN NullDocumentError
         ELSE Answer(Done, IF Nullish(Get(d, "hooks")) THEN Obj(<<>>)
                           ELSE Get(d, "hooks"))

\* hasHooks()
HasHooks(ld, d) ==
    IF MustLoad(ld, d) THEN NotLoadedError
    ELSE IF Nullish(d) THEN NullDocumentError
         ELSE Answer(Done, Bool(/\ Truthy(Get(d, "hooks"))
                                /\ Len(Keys(Get(d, "hooks"))) > 0))

\* getInstalledHookNames()
GetInstalledHookNames(ld, d) ==
    IF MustLoad(ld, d) THEN NotLoadedError
    ELSE IF Nullish(d) THEN NullDocumentError
         ELSE Answer(Done, Arr([i \in 1..Len(InstalledHookNames(d)) |->
                                  Str(InstalledHookNames(d)[i])]))

\* hasHook(hookName); the hooks values of the model's documents are objects
\* or falsy, so the in operator does not raise
HasHook(ld, d, hookName) ==
    IF MustLoad(ld, d) THEN NotLoadedError
    ELSE IF Nullish(d) THEN NullDocumentError
         ELSE Answer(Done, Bool(/\ Truthy(Get(d, "hooks"))
                                /\ HasKey(Get(d, "hooks"), hookName)))

\* HookAction
Completed == <<"C", "o", "m", "p", "l", "e", "t", "e", "d">>

Stopped == <<"S", "t", "o", "p", "p", "e", "d">>

\* The command strings of the model's documents, by name: what generateHooks
\* passed to createCommand for each, on which platform.  notifyA and notifyB
\* are the Completed action on macOS without and with sound, notifyW the
\* Stopped action on Windows with sound asked for.
Generated ==
    [ notifyA |-> [platform |-> "macos", sound |-> FALSE, action |-> Completed],
      notifyB |-> [platform |-> "macos", sound |-> TRUE, action |-> Completed],
      stopA |-> [platform |-> "macos", sound |-> FALSE, action |-> Stopped],
      stopB |-> [platform |-> "macos", sound |-> TRUE, action |-> Stopped],
      notifyV |-> [platform |-> "windows", sound |-> FALSE, action |-> Completed],
      notifyU |-> [platform |-> "windows", sound |-> TRUE, action |-> Completed],
      stopV |-> [platform |-> "windows", sound |-> FALSE, action |-> Stopped],
      notifyW |-> [platform |-> "windows", sound |-> TRUE, action |-> Stopped] ]

\* The text of a command string.  Other strings are not commands.
CommandText(name) ==
    IF name \in DOMAIN Generated
    THEN CreateCommandOn(Generated[name].platform, JsString(Generated[name].action),
                         Generated[name].sound).text
    ELSE <<>>

\* a detection that never finds a sound
DetectsNoSound(d, hookName) == "false"

\* _containsSoundCommand(command), for a command that is a string
ContainsSoundCommand(command) ==
    \/ Includes(CommandText(command.s), SoundText.soundName)
    \/ Includes(CommandText(command.s), SoundText.withSound)

RECURSIVE SoundInHooks(_, _), SoundInGroups(_, _)
\* for (const hook of group.hooks): "true", "false" (go on) or "TypeError"
SoundInHooks(hooks, j) ==
    IF j > Len(hooks) THEN "false"
    ELSE LET hook == Val(hooks[j]) IN
         IF Nullish(hook) THEN "TypeError"
         ELSE LET command == Get(hook, "command") IN
              IF ~Truthy(command) THEN SoundInHooks(hooks, j + 1)
              ELSE IF command.k # "str" THEN "TypeError"
                   ELSE IF ContainsSoundCommand(command) THEN "true"
                        ELSE SoundInHooks(hooks, j + 1)

\* for (const group of hookGroups)
SoundInGroups(groups, i) ==
    IF i > Len(groups) THEN "false"
    ELSE LET group == Val(groups[i]) IN
         IF Nullish(group) THEN "TypeError"
         ELSE LET hooks == Get(group, "hooks") IN
              IF ~Truthy(hooks) THEN SoundInGroups(groups, i + 1)
              ELSE IF ~IsArray(hooks) THEN "TypeError"
                   ELSE LET r == SoundInHooks(hooks.a, 1) IN
                        IF r = "false" THEN SoundInGroups(groups, i + 1) ELSE r

\* _detectSoundInHook(hookName) on a document that is not nullish: an event
\* value that is truthy and not a sequence is not iterable
DetectSoundInHook(d, hookName) ==
    IF ~Truthy(Get(d, "hooks")) \/ ~Truthy(Get(Get(d, "hooks"), hookName))
    THEN "false"
    ELSE LET hookGroups == Get(Get(d, "hooks"), hookName) IN
         IF ~IsArray(hookGroups) THEN "TypeError"
         ELSE SoundInGroups(hookGroups.a, 1)

\* the part of the status that analyzeConfiguration reports for one event
EventStatus(d, hookName) ==
    LET enabled == HasHook(TRUE, d, hookName).ans = Bool(TRUE) IN
    Obj(<<Member("enabled", Bool(enabled)),
          Member("hasSound", Bool(enabled /\ DetectSoundInHook(d, hookName) = "true"))>>)

\* analyzeConfiguration() once the store is loaded with document d.  The
\* platform name and soundSupported, which it reads from the operating
\* system, are left out of the status.
AnalyzeDoc(d) ==
    IF Nullish(d) THEN NullDocumentError
    ELSE IF \E hookName \in {"Notification", "Stop"} :
               /\ HasKey(HooksIn(d), hookName)
               /\ DetectSoundInHook(d, hookName) = "TypeError"
         THEN Answer(Outcome("TypeError", "_detectSoundInHook", ""), Undefined)
         ELSE Answer(Done,
                     Obj(<<Member("hasHooks", Bool(Len(InstalledHookNames(d)) > 0)),
                           Member("installedHooks", GetInstalledHookNames(TRUE, d).ans),
                           Member("notifications", EventStatus(d, "Notification")),
                           Member("stop", EventStatus(d, "Stop"))>>))

\* a save that takes the explicit document only when none is in memory
SaveDocKeepsMemory(d0, arg) == IF d0 # Null THEN d0 ELSE arg

\* if (data !== undefined) this.data = data
SaveDoc(d0, arg) == IF arg # Undefined THEN arg ELSE d0

\* a backup taken after the overwrite
BackupSourceWritten(f, written) == written

\* The file _createBackup copies: save calls it before writeFileSync, so it
\* reads the settings file as it was (f), not as save leaves it (written).
BackupSource(f, written) == f

\* a backup written whether or not there is a settings file to copy
BackupResultAlways(f, b, copy) == IF copy = "ok" THEN FileOf(f.content) ELSE b

\* _createBackup(): copy is the environment's outcome of the copy, "ok",
\* "fail" (nothing written) or "trunc" (the write opened the file and failed);
\* a failure is logged and swallowed.
BackupResult(f, b, copy) ==
    IF f.exists
    THEN CASE copy = "ok" -> FileOf(f.content)
           [] copy = "trunc" -> FileOf(<<>>)
           [] OTHER -> b
    ELSE b

SaveOut(o, d, f, b, dir, bok) ==
    [o |-> o, data |-> d, file |-> f, backup |-> b, dir |-> dir, bok |-> bok]

\* a save that validates after it has written
SaveResultWriteFirst(d0, ld, arg, f, b, dir, env) ==
    LET d == SaveDoc(d0, arg)
        v == ValidateSettings(d)
        b1 == BackupResult(BackupSource(f, FileOf(Stringify(d))), b, env.copy)
        bok == f.exists /\ env.copy = "ok"
    IN
    IF ~ld /\ d = Null
    THEN SaveOut(Outcome("write", "No data to save", ""), d, f, b, dir, FALSE)
    ELSE IF ~dir /\ env.mkdir = "fail"
    THEN SaveOut(Outcome("write", "mkdirSync", ""), d, f, b, dir, FALSE)
    ELSE IF env.write # "ok"
    THEN SaveOut(Outcome("write", "writeFileSync", ""), d, f, b1, TRUE, bok)
    ELSE IF v.err = "validate"
    THEN SaveOut(v, d, FileOf(Stringify(d)), b1, TRUE, bok)
    ELSE IF v.err # ""
    THEN SaveOut(Outcome("write", v.err, v.key), d, FileOf(Stringify(d)), b1, TRUE, bok)
    ELSE SaveOut(Done, d, FileOf(Stringify(d)), b1, TRUE, bok)

\* save as it would be if a failed backup copy ended it
SaveResultBackupFatal(d0, ld, arg, f, b, dir, env) ==
    LET d == SaveDoc(d0, arg)
        v == ValidateSettings(d)
    IN
    IF ~ld /\ d = Null
    THEN SaveOut(Outcome("write", "No data to save", ""), d, f, b, dir, FALSE)
    ELSE IF ~dir /\ env.mkdir = "fail"
    THEN SaveOut(Outcome("write", "mkdirSync", ""), d, f, b, dir, FALSE)
    ELSE IF v.err = "validate"
    THEN SaveOut(v, d, f, b, TRUE, FALSE)
    ELSE IF v.err # ""
    THEN SaveOut(Outcome("write", v.err, v.key), d, f, b, TRUE, FALSE)
    ELSE IF f.exists /\ env.copy = "fail"
    THEN SaveOut(Outcome("write", "backup", ""), d, f, b, TRUE, FALSE)
    ELSE IF env.write = "ok"
    THEN SaveOut(Done, d, FileOf(Stringify(d)), BackupResult(f, b, env.copy), TRUE, f.exists)
    ELSE SaveOut(Outcome("write", "writeFileSync", ""), d, f,
                 BackupResult(f, b, env.copy), TRUE, f.exists)

\* save(data): the new document, files and outcome.  env gives the
\* environment's outcome of mkdirSync, of the backup copy and of the final
\* writeFileSync.
SaveResult(d0, ld, arg, f, b, dir, env) ==
    LET d == SaveDoc(d0, arg)
        v == ValidateSettings(d)
        b1 == BackupResult(BackupSource(f, FileOf(Stringify(d))), b, env.copy)
        bok == f.exists /\ env.copy = "ok"
    IN
    IF ~ld /\ d = Null
    THEN SaveOut(Outcome("write", "No data to save", ""), d, f, b, dir, FALSE)
    ELSE IF ~dir /\ env.mkdir = "fail"
    THEN SaveOut(Outcome("write", "mkdirSync", ""), d, f, b, dir, FALSE)
    ELSE IF v.err = "validate"
    THEN SaveOut(v, d, f, b, TRUE, FALSE)
    ELSE IF v.err # ""
    THEN SaveOut(Outcome("write", v.err, v.key), d, f, b, TRUE, FALSE)
    ELSE CASE env.write = "ok" ->
                SaveOut(Done, d, FileOf(Stringify(d)), b1, TRUE, bok)
           [] env.write = "trunc" ->
                SaveOut(Outcome("write", "writeFileSync", ""), d, FileOf(<<>>),
                        b1, TRUE, bok)
           [] OTHER ->
                SaveOut(Outcome("write", "writeFileSync", ""), d, f, b1, TRUE, bok)

(***************************************************************************)
(* Inputs of the model                                                     *)
(***************************************************************************)
\* calls made on the store in one session
MaxOps == 3

Stores == {1, 2}

Entry(c) == Obj(<<Member("type", Str("command")), Member("command", Str(c))>>)

Group(c) == Obj(<<Member("hooks", Arr(<<Entry(c)>>))>>)

GX == Arr(<<Group("notifyA")>>)

GY == Arr(<<Group("notifyB")>>)

GW == Arr(<<Group("notifyW")>>)

\* newHooks arguments of mergeHooks: well formed, empty, an event that is a
\* plain object, an event whose group is null
MergeArgs ==
    { Obj(<<Member("Notification", GY)>>),
      Obj(<<Member("Stop", GW), Member("Notification", GX)>>),
      Obj(<<>>),
      Obj(<<Member("Notification", Group("notifyA"))>>),
      Obj(<<Member("Stop", Arr(<<Null>>))>>) }

\* hookNames arguments of removeHooks, besides getInstalledHookNames()
RemoveArgs == { <<"Notification">>, <<"Notification", "Stop">>, <<"SubagentStop">> }

DocFull ==
    Obj(<<Member("theme", Str("dark")),
          Member("hooks", Obj(<<Member("Notification", GX), Member("Stop", GY)>>))>>)

DocForeign ==
    Obj(<<Member("hooks", Obj(<<Member("PreToolUse", GY)>>)),
          Member("model", Str("opus"))>>)

DocEmptyHooks == Obj(<<Member("hooks", Obj(<<>>))>>)

DocNullHooks == Obj(<<Member("hooks", Null), Member("theme", Str("dark"))>>)

DocBadEvent == Obj(<<Member("hooks", Obj(<<Member("Notification", Group("notifyA"))>>))>>)

DocFalsyEvent == Obj(<<Member("hooks", Obj(<<Member("Stop", Null)>>))>>)

\* explicit documents passed to save(data); Undefined is save()
SaveArgs == { Undefined, DocFull, DocBadEvent }

\* contents the settings file can have when a session starts
InitTexts ==
    { <<>>, <<P("{")>>, <<Tok("lit", "null")>>,
      Stringify(DocFull), Stringify(DocForeign),
      Stringify(DocEmptyHooks), Stringify(DocNullHooks),
      Stringify(DocBadEvent), Stringify(DocFalsyEvent) }

StaleBackup == FileOf(Stringify(Obj(<<Member("theme", Str("light"))>>)))

Env(mkdir, copy, write) == [mkdir |-> mkdir, copy |-> copy, write |-> write]

\* what the file system does during one save: nothing fails, or one call does
Envs ==
    { Env("ok", "ok", "ok"), Env("fail", "ok", "ok"), Env("ok", "fail", "ok"),
      Env("ok", "ok", "fail"), Env("ok", "ok", "trunc") }

(***************************************************************************)
(* State                                                                   *)
(***************************************************************************)
\* the last call: what was called, how it ended, the document it worked on
\* (for a call that loads first, the document loaded), the file and the backup
\* it started from, whether the directory existed and whether the store was
\* loaded when it was made, the call before it when that one returned without
\* error (after), whether that one was the same call with the same arguments
\* (again), whether load() has run on the store so far, called directly or
\* by a method that loads first (loadCalled), and has succeeded (loadOk), and
\* the value a query returned (ans)
NoOp ==
    [op |-> "", arg |-> Undefined, names |-> <<>>, err |-> "", why |-> "",
     key |-> "", pre |-> Null, fpre |-> NoFile, bpre |-> NoFile, bok |-> FALSE,
     dpre |-> FALSE, wasLoaded |-> FALSE, after |-> "", again |-> FALSE,
     loadCalled |-> FALSE, loadOk |-> FALSE, ans |-> Undefined]

\* the file system when a session starts and the stores as constructed
InitDisk ==
    /\ \/ file = NoFile /\ dirExists \in BOOLEAN
       \/ \E t \in InitTexts : file = FileOf(t) /\ dirExists = TRUE
    /\ backup \in {NoFile, StaleBackup}
    /\ backup.exists => dirExists /\ ~file.exists
    /\ data = [s \in Stores |-> Null]
    /\ loaded = [s \in Stores |-> FALSE]
    /\ buf = [s \in Stores |-> <<>>]
    /\ seen = [s \in Stores |-> Null]
    /\ hist = <<>>
    /\ last = NoOp
    /\ nops = 0

\* what a call on a sanitizer, a command builder or a validator left: the
\* function, the platform and the sound flag, whether the text validated was
\* built by createCommand, whether the call threw, the verdict of validate,
\* and the text returned or validated
NoOut ==
    [fn |-> "", platform |-> "", sound |-> FALSE, built |-> FALSE,
     thrown |-> FALSE, valid |-> FALSE, text |-> <<>>]

\* a session of the store builds no command, registers no platform and is
\* not a run of main
NoCall ==
    /\ argument = NotAString
    /\ out = NoOut
    /\ platforms = InitialPlatforms
    /\ os = "darwin"
    /\ exitCode = Undefined

Init ==
    /\ InitDisk
    /\ pc = [s \in Stores |-> "api"]
    /\ nh = [s \in Stores |-> Undefined]
    /\ NoCall

\* the store instance of a session that calls the store directly
st == 1

\* the queries a session makes
Queries ==
    { [fn |-> "getData", name |-> ""], [fn |-> "getHooks", name |-> ""],
      [fn |-> "hasHooks", name |-> ""], [fn |-> "getInstalledHookNames", name |-> ""],
      [fn |-> "hasHook", name |-> "Notification"] }

QueryNames == {q.fn : q \in Queries}

QueryResult(q, ld, d) ==
    CASE q.fn = "getData" -> GetData(ld, d)
      [] q.fn = "getHooks" -> GetHooks(ld, d)
      [] q.fn = "hasHooks" -> HasHooks(ld, d)
      [] q.fn = "getInstalledHookNames" -> GetInstalledHookNames(ld, d)
      [] OTHER -> HasHook(ld, d, q.name)

\* the call runs load(): it is load, or a method that loads first on a store
\* that is not loaded
RunsLoad(op) ==
    \/ op = "load"
    \/ op \in {"mergeHooks", "removeHooks", "removeAllHooks", "analyzeConfiguration"}
       /\ ~loaded[st]

RecordAnswer(op, arg, names, o, pre, bok, ans) ==
    /\ last' = [op |-> op, arg |-> arg, names |-> names, err |-> o.err,
                why |-> o.why, key |-> o.key, pre |-> pre, fpre |-> file,
                bpre |-> backup, bok |-> bok, dpre |-> dirExists,
                wasLoaded |-> loaded[st],
                after |-> IF last.err = "" THEN last.op ELSE "",
                again |-> last.op = op /\ last.arg = arg /\ last.names = names,
                loadCalled |-> last.loadCalled \/ RunsLoad(op),
                loadOk |-> last.loadOk
                             \/ (RunsLoad(op) /\ o.err \notin {"read", "parse"}),
                ans |-> ans]
    /\ nops' = nops + 1

Record(op, arg, names, o, pre, bok) ==
    RecordAnswer(op, arg, names, o, pre, bok, Undefined)

\* A query changes nothing of the store, so what can follow it is what can
\* follow the state it was asked in: a session of the model asks a query
\* last.
CanCall == pc[st] = "api" /\ nops < MaxOps /\ last.op \notin QueryNames

\* readFileSync can fail only where it is called: the file exists and the
\* operation loads
ReadOutcomes(skip) == IF skip \/ ~file.exists THEN {FALSE} ELSE BOOLEAN

\* the load() that mergeHooks, removeHooks and removeAllHooks run first when
\* the store is not loaded
AutoLoad(readFails) ==
    IF loaded[st] THEN Result(Done, data[st])
    ELSE LoadResult(data[st], file, readFails)

(***************************************************************************)
(* Operations of one store                                                 *)
(***************************************************************************)
Load ==
    /\ CanCall
    /\ \E readFails \in ReadOutcomes(FALSE) :
         LET r == LoadResult(data[st], file, readFails) IN
         /\ data' = [data EXCEPT ![st] = r.data]
         /\ loaded' = [loaded EXCEPT ![st] = loaded[st] \/ r.err = ""]
         /\ Record("load", Undefined, <<>>, r, data[st], FALSE)
    /\ UNCHANGED <<file, backup, dirExists, pc, nh, buf, seen, hist, argument, out,
                   platforms, os, exitCode>>

Save ==
    /\ CanCall
    /\ \E arg \in SaveArgs, env \in Envs :
         \* mkdirSync and the backup copy can fail only where they are called
         /\ env.mkdir = "fail" => ~dirExists
         /\ env.copy = "fail" => file.exists
         /\ LET r == SaveResult(data[st], loaded[st], arg, file, backup, dirExists, env) IN
            /\ data' = [data EXCEPT ![st] = r.data]
            /\ file' = r.file
            /\ backup' = r.backup
            /\ dirExists' = r.dir
            /\ Record("save", arg, <<>>, r.o, data[st], r.bok)
    /\ UNCHANGED <<loaded, pc, nh, buf, seen, hist, argument, out,
                   platforms, os, exitCode>>

\* mergeHooks as it would be if it wrote the merged document through to the
\* settings file
MergeHooksWriteThrough ==
    /\ CanCall
    /\ \E newHooks \in MergeArgs, readFails \in ReadOutcomes(loaded[st]) :
         LET l == AutoLoad(readFails)
             r == IF l.err # "" THEN l ELSE MergeDoc(l.data, newHooks)
         IN
         /\ data' = [data EXCEPT ![st] = r.data]
         /\ loaded' = [loaded EXCEPT ![st] = loaded[st] \/ l.err = ""]
         /\ file' = IF r.err = "" THEN FileOf(Stringify(r.data)) ELSE file
         /\ Record("mergeHooks", newHooks, Keys(newHooks), r, l.data, FALSE)
    /\ UNCHANGED <<backup, dirExists, pc, nh, buf, seen, hist, argument, out,
                   platforms, os, exitCode>>

MergeHooks ==
    /\ CanCall
    /\ \E newHooks \in MergeArgs, readFails \in ReadOutcomes(loaded[st]) :
         LET l == AutoLoad(readFails)
             r == IF l.err # "" THEN l ELSE MergeDoc(l.data, newHooks)
         IN
         /\ data' = [data EXCEPT ![st] = r.data]
         /\ loaded' = [loaded EXCEPT ![st] = loaded[st] \/ l.err = ""]
         /\ Record("mergeHooks", newHooks, Keys(newHooks), r, l.data, FALSE)
    /\ UNCHANGED <<file, backup, dirExists, pc, nh, buf, seen, hist, argument, out,
                   platforms, os, exitCode>>

RemoveHooks ==
    /\ CanCall
    /\ \E readFails \in ReadOutcomes(loaded[st]) :
         LET l == AutoLoad(readFails) IN
         \E hookNames \in RemoveArgs
                          \cup (IF l.err = "" /\ ~Nullish(l.data)
                                THEN {InstalledHookNames(l.data)} ELSE {}) :
           LET r == IF l.err # "" THEN l ELSE RemoveDoc(l.data, hookNames) IN
           /\ data' = [data EXCEPT ![st] = r.data]
           /\ loaded' = [loaded EXCEPT ![st] = loaded[st] \/ l.err = ""]
           /\ Record("removeHooks", Undefined, hookNames, r, l.data, FALSE)
    /\ UNCHANGED <<file, backup, dirExists, pc, nh, buf, seen, hist, argument, out,
                   platforms, os, exitCode>>

RemoveAllHooks ==
    /\ CanCall
    /\ \E readFails \in ReadOutcomes(loaded[st]) :
         LET l == AutoLoad(readFails)
             r == IF l.err # "" THEN l ELSE RemoveAllDoc(l.data)
         IN
         /\ data' = [data EXCEPT ![st] = r.data]
         /\ loaded' = [loaded EXCEPT ![st] = loaded[st] \/ l.err = ""]
         /\ Record("removeAllHooks", Undefined, <<>>, r, l.data, FALSE)
    /\ UNCHANGED <<file, backup, dirExists, pc, nh, buf, seen, hist, argument, out,
                   platforms, os, exitCode>>

AnalyzeConfiguration ==
    /\ CanCall
    /\ \E readFails \in ReadOutcomes(loaded[st]) :
         LET l == AutoLoad(readFails)
             r == IF l.err # "" THEN Answer(l, Undefined) ELSE AnalyzeDoc(l.data)
         IN
         /\ data' = [data EXCEPT ![st] = l.data]
         /\ loaded' = [loaded EXCEPT ![st] = loaded[st] \/ l.err = ""]
         /\ RecordAnswer("analyzeConfiguration", Undefined, <<>>, r, l.data, FALSE, r.ans)
    /\ UNCHANGED <<file, backup, dirExists, pc, nh, buf, seen, hist, argument, out,
                   platforms, os, exitCode>>

\* getData, getHooks, hasHooks, getInstalledHookNames or hasHook
Query ==
    /\ CanCall
    /\ \E q \in Queries :
         LET r == QueryResult(q, loaded[st], data[st]) IN
         RecordAnswer(q.fn, Undefined, IF q.name = "" THEN <<>> ELSE <<q.name>>,
                      r, data[st], FALSE, r.ans)
    /\ UNCHANGED <<file, backup, dirExists, data, loaded, pc, nh, buf, seen, hist,
                   argument, out,
                   platforms, os, exitCode>>

Next ==
    \/ Load
    \/ Save
    \/ MergeHooks
    \/ RemoveHooks
    \/ RemoveAllHooks
    \/ AnalyzeConfiguration
    \/ Query

Spec == Init /\ [][Next]_vars

(***************************************************************************)
(* Two invocations of saveHooksToSettings on the same settings file: each  *)
(* constructs its own store and runs load, mergeHooks(newHooks), save.     *)
(* Nothing locks the file, so the file-system calls of the two interleave: *)
(* save is split at its calls on the shared files.  File-system failures   *)
(* are left to Spec.                                                       *)
(***************************************************************************)
RaceArgs ==
    { Obj(<<Member("Notification", GY)>>),
      Obj(<<Member("Stop", GX)>>),
      Obj(<<Member("Stop", GY), Member("Notification", GX)>>),
      Obj(<<Member("Notification", Group("notifyA"))>>) }

InitRace ==
    /\ InitDisk
    /\ pc = [s \in Stores |-> "start"]
    /\ nh \in [Stores -> RaceArgs]
    /\ NoCall

Event(what, i) == [what |-> what, by |-> i]

\* await settings.load()
RaceLoad(i) ==
    /\ pc[i] = "start"
    /\ LET r == LoadResult(data[i], file, FALSE) IN
       /\ data' = [data EXCEPT ![i] = r.data]
       /\ loaded' = [loaded EXCEPT ![i] = r.err = ""]
       /\ seen' = [seen EXCEPT ![i] = r.data]
       /\ pc' = [pc EXCEPT ![i] = IF r.err = "" THEN "loaded" ELSE "failed"]
    /\ hist' = Append(hist, Event("load", i))
    /\ UNCHANGED <<file, backup, dirExists, nh, buf, last, nops, argument, out,
                   platforms, os, exitCode>>

\* await settings.mergeHooks(newHooks)
RaceMerge(i) ==
    /\ pc[i] = "loaded"
    /\ LET r == MergeDoc(data[i], nh[i]) IN
       /\ data' = [data EXCEPT ![i] = r.data]
       /\ pc' = [pc EXCEPT ![i] = IF r.err = "" THEN "merged" ELSE "failed"]
    /\ UNCHANGED <<file, backup, dirExists, loaded, nh, buf, seen, hist, last, nops, argument, out,
                   platforms, os, exitCode>>

\* save() up to the read of _createBackup: the directory, the validation, and
\* the content of the settings file as it is now
RaceSaveRead(i) ==
    /\ pc[i] = "merged"
    /\ dirExists' = TRUE
    /\ IF ValidateSettings(data[i]).err # ""
       THEN pc' = [pc EXCEPT ![i] = "failed"] /\ buf' = buf
       ELSE IF file.exists
            THEN pc' = [pc EXCEPT ![i] = "copy"]
                 /\ buf' = [buf EXCEPT ![i] = file.content]
            ELSE pc' = [pc EXCEPT ![i] = "write"] /\ buf' = buf
    /\ UNCHANGED <<file, backup, data, loaded, nh, seen, hist, last, nops, argument, out,
                   platforms, os, exitCode>>

\* writeFileSync(backupPath, content)
RaceBackupWrite(i) ==
    /\ pc[i] = "copy"
    /\ backup' = FileOf(buf[i])
    /\ pc' = [pc EXCEPT ![i] = "write"]
    /\ UNCHANGED <<file, dirExists, data, loaded, nh, buf, seen, hist, last, nops, argument, out,
                   platforms, os, exitCode>>

\* a write that reads the file again and merges into what it finds
RaceWriteRemerged(i) ==
    /\ pc[i] = "write"
    /\ file' = FileOf(Stringify(MergeDoc(LoadResult(data[i], file, FALSE).data,
                                         nh[i]).data))
    /\ pc' = [pc EXCEPT ![i] = "done"]
    /\ hist' = Append(hist, Event("write", i))
    /\ UNCHANGED <<backup, dirExists, data, loaded, nh, buf, seen, last, nops, argument, out,
                   platforms, os, exitCode>>

\* writeFileSync(this.path, json)
RaceWrite(i) ==
    /\ pc[i] = "write"
    /\ file' = FileOf(Stringify(data[i]))
    /\ pc' = [pc EXCEPT ![i] = "done"]
    /\ hist' = Append(hist, Event("write", i))
    /\ UNCHANGED <<backup, dirExists, data, loaded, nh, buf, seen, last, nops, argument, out,
                   platforms, os, exitCode>>

NextRace ==
    \E i \in Stores :
       \/ RaceLoad(i)
       \/ RaceMerge(i)
       \/ RaceSaveRead(i)
       \/ RaceBackupWrite(i)
       \/ RaceWrite(i)

SpecRace == InitRace /\ [][NextRace]_vars

(***************************************************************************)
(* Calls on the sanitizers, the command builders and the validators: one   *)
(* call on one argument, and the validation of the command that was built  *)
(* or of a command made of the argument.                                   *)
(***************************************************************************)
\* pieces put together to make an argument
MaxPieces == 3

\* the texts a command validator is to reject wherever they occur
Rejected ==
    \* ; rm
    [ semicolonRm |->
         <<";", " ", "r", "m">>,
    \* | nc
      pipeNc |->
         <<"|", " ", "n", "c">>,
    \* && curl
      andCurl |->
         <<"&", "&", " ", "c", "u", "r", "l">>,
    \* Invoke-Expression
      invokeExpression |->
         <<"I", "n", "v", "o", "k", "e", "-", "E", "x", "p", "r", "e", "s",
           "s", "i", "o", "n">> ]

\* what arguments are made of: the rejected texts, the characters the
\* sanitizers remove or escape, a space and an action of generateHooks
Pieces ==
    { Rejected.semicolonRm,
      Rejected.pipeNc,
      Rejected.andCurl,
      Rejected.invokeExpression,
      <<Backtick, "$", "\"", "\\", "'">>,
      <<" ">>,
      <<"C", "o", "m", "p", "l", "e", "t", "e", "d">> }

Texts == {Join(f, <<>>) : f \in UNION {[1..n -> Pieces] : n \in 0..MaxPieces}}

Arguments == {NotAString} \cup {JsString(t) : t \in Texts}

InitCmd ==
    /\ InitDisk
    /\ ~file.exists /\ ~backup.exists /\ ~dirExists
    /\ pc = [s \in Stores |-> "api"]
    /\ nh = [s \in Stores |-> Undefined]
    /\ argument \in Arguments
    /\ out = NoOut
    /\ platforms = InitialPlatforms
    /\ os = "darwin"
    /\ exitCode = Undefined

Sanitizers ==
    {"sanitizeInput", "sanitizeForPowerShell", "sanitizeForAppleScript",
     "_sanitizeForPowerShell", "escapeForAppleScript"}

SanitizeWith(fn, v) ==
    CASE fn = "sanitizeInput" -> SanitizeInput(v)
      [] fn = "sanitizeForPowerShell" -> SanitizeForPowerShell(v)
      [] fn = "sanitizeForAppleScript" -> SanitizeForAppleScript(v)
      [] fn = "_sanitizeForPowerShell" -> WindowsSanitizeForPowerShell(v)
      [] OTHER -> EscapeForAppleScript(v.text)

\* a call on a sanitizer; the escaping inside MacOSPlatform.createCommand is
\* reached with a non-empty string only
Sanitize ==
    /\ out = NoOut
    /\ \E fn \in Sanitizers :
         /\ fn = "escapeForAppleScript" => argument.isString /\ argument.text # <<>>
         /\ out' = [NoOut EXCEPT !.fn = fn, !.text = SanitizeWith(fn, argument)]
    /\ UNCHANGED <<file, backup, dirExists, data, loaded, pc, nh, buf, seen, hist,
                   last, nops, argument,
                   platforms, os, exitCode>>

CreateCommand ==
    /\ out = NoOut
    /\ \E platform \in Platforms, withSound \in BOOLEAN :
         LET r == CreateCommandOn(platform, argument, withSound) IN
         out' = [NoOut EXCEPT !.fn = "createCommand", !.platform = platform,
                              !.sound = withSound, !.built = ~r.thrown,
                              !.thrown = r.thrown, !.text = r.text]
    /\ UNCHANGED <<file, backup, dirExists, data, loaded, pc, nh, buf, seen, hist,
                   last, nops, argument,
                   platforms, os, exitCode>>

\* the argument inside the platform's wrapping
Wrapped(platform, text) ==
    IF platform = "macos" THEN MacOSText.prefix \o text \o MacOSText.quote
    ELSE WindowsText.prefix \o text \o WindowsText.closing

\* validate(command) on the command createCommand returned, or on the
\* argument, bare or inside the platform's wrapping
Validate ==
    /\ \/ /\ out.fn = "createCommand" /\ ~out.thrown
          /\ out' = [out EXCEPT !.fn = "validate",
                                !.valid = ValidateOn(out.platform, JsString(out.text))]
       \/ /\ out = NoOut
          /\ \E platform \in Platforms, wrapped \in BOOLEAN :
               LET command == IF wrapped /\ argument.isString
                              THEN JsString(Wrapped(platform, argument.text))
                              ELSE argument
               IN  out' = [NoOut EXCEPT !.fn = "validate", !.platform = platform,
                                        !.text = command.text,
                                        !.valid = ValidateOn(platform, command)]
    /\ UNCHANGED <<file, backup, dirExists, data, loaded, pc, nh, buf, seen, hist,
                   last, nops, argument,
                   platforms, os, exitCode>>

NextCmd == Sanitize \/ CreateCommand \/ Validate

SpecCmd == InitCmd /\ [][NextCmd]_vars

(***************************************************************************)
(* Calls on the registry: register of a registered id with either class,   *)
(* getSupportedPlatform and isAnyPlatformSupported, on each system.  hist  *)
(* is the sequence of the register calls made.                             *)
(***************************************************************************)
MaxRegs == 3

Systems == {"darwin", "win32", "linux"}

InitReg ==
    /\ InitDisk
    /\ ~file.exists /\ ~backup.exists /\ ~dirExists
    /\ pc = [s \in Stores |-> "api"]
    /\ nh = [s \in Stores |-> Undefined]
    /\ argument = NotAString
    /\ out = NoOut
    /\ platforms = InitialPlatforms
    /\ os \in Systems
    /\ exitCode = Undefined

Register ==
    /\ Len(hist) < MaxRegs
    /\ \E i \in 1..Len(InitialPlatforms), j \in 1..Len(InitialPlatforms) :
         LET name == InitialPlatforms[i].name
             cls == InitialPlatforms[j].cls
         IN
         /\ platforms' = MapSet(platforms, name, cls)
         /\ hist' = Append(hist, [name |-> name, cls |-> cls])
         /\ out' = [NoOut EXCEPT !.fn = "register", !.platform = cls]
    /\ UNCHANGED <<file, backup, dirExists, data, loaded, pc, nh, buf, seen, last,
                   nops, argument, os, exitCode>>

GetSupported ==
    /\ LET r == GetSupportedPlatform(platforms, os) IN
         out' = [NoOut EXCEPT !.fn = "getSupportedPlatform", !.platform = r.cls,
                              !.thrown = r.thrown]
    /\ UNCHANGED <<file, backup, dirExists, data, loaded, pc, nh, buf, seen, hist,
                   last, nops, argument, platforms, os, exitCode>>

IsAnySupported ==
    /\ out' = [NoOut EXCEPT !.fn = "isAnyPlatformSupported",
                            !.valid = IsAnyPlatformSupported(platforms, os)]
    /\ UNCHANGED <<file, backup, dirExists, data, loaded, pc, nh, buf, seen, hist,
                   last, nops, argument, platforms, os, exitCode>>

NextReg == Register \/ GetSupported \/ IsAnySupported

SpecReg == InitReg /\ [][NextReg]_vars

(***************************************************************************)
(* The hook selection: promptHookSelection, validateHookSelection,         *)
(* parseHookSelection and generateHooks.  A selection is the sequence of   *)
(* its values, or a value that is not an array.                            *)
(***************************************************************************)
\* HookSelection
HookSelection ==
    [ ON_NOTIFICATION |-> "onNotification",
      ON_NOTIFICATION_SOUND |-> "onNotificationSound",
      ON_STOP |-> "onStop",
      ON_STOP_SOUND |-> "onStopSound" ]

Selection(items) == [isArray |-> TRUE, items |-> items]

NotAnArray == [isArray |-> FALSE, items |-> <<>>]

\* what stands for the answer of a checkbox prompt that was left
\* (ExitPromptError)
Left == <<"cancel">>

UserCancelled == [thrown |-> "UserCancelledError", items |-> <<>>]

\* promptHookSelection(): checked is what the checkbox returns, in the order
\* of its choices, or Left; soundSupported is
\* isSoundSupported(), whose code is not in the sources at hand; sound is the
\* answer to the sound prompt, or "cancel"
PromptHookSelection(checked, soundSupported, sound) ==
    IF checked = Left \/ checked = <<>> THEN UserCancelled
    ELSE IF soundSupported /\ sound = "cancel" THEN UserCancelled
    ELSE LET enableSound == soundSupported /\ sound = "yes"
             sounds == [i \in 1..Len(checked) |->
                          IF checked[i] = HookSelection.ON_NOTIFICATION
                          THEN HookSelection.ON_NOTIFICATION_SOUND
                          ELSE HookSelection.ON_STOP_SOUND]
         IN  [thrown |-> "", items |-> checked \o (IF enableSound THEN sounds ELSE <<>>)]

\* a validation that does not ask for the base of the stop sound
ValidateHookSelectionNoStopBase(selectedHooks) ==
    IF ~selectedHooks.isArray
    THEN [isValid |-> FALSE, errors |-> <<"Selected hooks must be an array">>]
    ELSE IF Len(selectedHooks.items) = 0
    THEN [isValid |-> FALSE, errors |-> <<"No hooks selected">>]
    ELSE LET has == Range(selectedHooks.items)
             errors ==
                (IF has \ Range(<<"onNotification", "onNotificationSound", "onStop",
                                  "onStopSound">>) # {}
                 THEN <<"Invalid hook values">> ELSE <<>>)
                \o (IF "onNotificationSound" \in has /\ "onNotification" \notin has
                    THEN <<"Sound for completion notification requires base">> ELSE <<>>)
         IN  [isValid |-> errors = <<>>, errors |-> errors]

\* validateHookSelection(selectedHooks)
ValidateHookSelection(selectedHooks) ==
    IF ~selectedHooks.isArray
    THEN [isValid |-> FALSE, errors |-> <<"Selected hooks must be an array">>]
    ELSE IF Len(selectedHooks.items) = 0
    THEN [isValid |-> FALSE, errors |-> <<"No hooks selected">>]
    ELSE LET has == Range(selectedHooks.items)
             validHookValues == {HookSelection[f] : f \in DOMAIN HookSelection}
             errors ==
                (IF has \ validHookValues # {}
                 THEN <<"Invalid hook values">> ELSE <<>>)
                \o (IF /\ HookSelection.ON_NOTIFICATION_SOUND \in has
                       /\ HookSelection.ON_NOTIFICATION \notin has
                    THEN <<"Sound for completion notification requires base">> ELSE <<>>)
                \o (IF /\ HookSelection.ON_STOP_SOUND \in has
                       /\ HookSelection.ON_STOP \notin has
                    THEN <<"Sound for stop notification requires base">> ELSE <<>>)
         IN  [isValid |-> errors = <<>>, errors |-> errors]

\* parseHookSelection(selectedHooks), for an array
ParseHookSelection(selectedHooks) ==
    LET has == Range(selectedHooks.items) IN
    [ notificationEnabled |-> HookSelection.ON_NOTIFICATION \in has,
      notificationWithSound |-> HookSelection.ON_NOTIFICATION_SOUND \in has,
      stopEnabled |-> HookSelection.ON_STOP \in has,
      stopWithSound |-> HookSelection.ON_STOP_SOUND \in has ]

\* the name the model gives to the command createCommand builds
NameOf(platform, action, sound) ==
    CHOOSE name \in DOMAIN Generated :
       Generated[name] = [platform |-> platform, sound |-> sound, action |-> action]

\* the hook group generateHooks builds around a command
HookGroupOf(m, o, action, sound) ==
    LET cls == GetSupportedPlatform(m, o).cls IN
    Arr(<<Group(NameOf(IF cls = "MacOSPlatform" THEN "macos" ELSE "windows",
                       action, sound))>>)

\* generateHooks(config) with registry m on system o: createNotificationCommand
\* throws when no platform is supported, generateHooks throws an Error then
GenerateHooks(config, m, o) ==
    IF (config.notificationEnabled \/ config.stopEnabled) /\ ~IsAnyPlatformSupported(m, o)
    THEN [thrown |-> "Error", newHooks |-> Undefined]
    ELSE [thrown |-> "",
          newHooks |->
             Obj((IF config.notificationEnabled
                  THEN <<Member("Notification",
                                HookGroupOf(m, o, Completed, config.notificationWithSound))>>
                  ELSE <<>>)
                 \o (IF config.stopEnabled
                     THEN <<Member("Stop", HookGroupOf(m, o, Stopped, config.stopWithSound))>>
                     ELSE <<>>))]

MaxSel == 3

\* the values of a selection: those of HookSelection and one that is not
SelectionValues == {HookSelection[f] : f \in DOMAIN HookSelection} \cup {"other"}

Selections ==
    {NotAnArray} \cup
    {Selection(items) : items \in UNION {[1..n -> SelectionValues] : n \in 0..MaxSel}}

\* either the selection is still to be prompted for, or it is any selection
InitSel ==
    /\ InitDisk
    /\ ~file.exists /\ ~backup.exists /\ ~dirExists
    /\ nh = [s \in Stores |-> Undefined]
    /\ out = NoOut
    /\ platforms = InitialPlatforms
    /\ os \in Systems
    /\ exitCode = Undefined
    /\ \/ argument = NotAString /\ pc = [s \in Stores |-> "start"]
       \/ argument \in Selections /\ pc = [s \in Stores |-> "selected"]

PromptSelection ==
    /\ pc[st] = "start"
    /\ \E checked \in {Left, <<>>, <<HookSelection.ON_NOTIFICATION>>,
                        <<HookSelection.ON_STOP>>,
                        <<HookSelection.ON_NOTIFICATION, HookSelection.ON_STOP>>},
          soundSupported \in BOOLEAN, sound \in {"yes", "no", "cancel"} :
         LET r == PromptHookSelection(checked, soundSupported, sound) IN
         /\ argument' = IF r.thrown = "" THEN Selection(r.items) ELSE argument
         /\ pc' = [pc EXCEPT ![st] = IF r.thrown = "" THEN "selected" ELSE "cancelled"]
         /\ last' = [NoOp EXCEPT !.op = "promptHookSelection", !.err = r.thrown]
    /\ UNCHANGED <<file, backup, dirExists, data, loaded, nh, buf, seen, hist, nops,
                   out, platforms, os, exitCode>>

ValidateSelection ==
    /\ pc[st] = "selected"
    /\ LET v == ValidateHookSelection(argument) IN
         /\ out' = [NoOut EXCEPT !.fn = "validateHookSelection", !.valid = v.isValid,
                                 !.text = v.errors]
         /\ pc' = [pc EXCEPT ![st] = IF v.isValid THEN "validated" ELSE "invalid"]
    /\ UNCHANGED <<file, backup, dirExists, data, loaded, nh, buf, seen, hist, last,
                   nops, argument, platforms, os, exitCode>>

\* parseHookSelection and generateHooks on a selection that was accepted
ParseAndGenerate ==
    /\ pc[st] = "validated"
    /\ LET g == GenerateHooks(ParseHookSelection(argument), platforms, os) IN
         /\ nh' = [nh EXCEPT ![st] = g.newHooks]
         /\ pc' = [pc EXCEPT ![st] = IF g.thrown = "" THEN "generated" ELSE "failed"]
    /\ UNCHANGED <<file, backup, dirExists, data, loaded, buf, seen, hist, last,
                   nops, argument, out, platforms, os, exitCode>>

NextSel == PromptSelection \/ ValidateSelection \/ ParseAndGenerate

SpecSel == InitSel /\ [][NextSel]_vars

(***************************************************************************)
(* The interactive program: main shows the main menu in a loop and runs    *)
(* the handler of the action chosen, each on a store of its own.  pc[st]   *)
(* is where main is: "start", "menu" (at the main menu prompt), "next" (at *)
(* the prompt that follows a handler), "done" (main has returned) or       *)
(* "exited" (process.exit was called, with exitCode).                      *)
(***************************************************************************)
\* ConfirmationAction
ConfirmationAction == [INSTALL |-> "install", EXIT |-> "exit"]

\* how a handler ended: the class of the error it raised ("" when it returned),
\* the steps it ran, the answer given at its confirmation prompt ("" when the
\* prompt was not reached) and what it left on disk
Ended(raised, steps, answer, f, b, dir) ==
    [raised |-> raised, steps |-> steps, answer |-> answer, file |-> f,
     backup |-> b, dir |-> dir]

\* the class of an error of the store
ErrorClass(err) == IF err = "TypeError" THEN "TypeError" ELSE "SettingsError"

\* a confirmation that lets every answer through
ExitChosenNever(action) == FALSE

\* handleInstallModify: if (action === ConfirmationAction.EXIT) throw
ExitChosen(action) == action = ConfirmationAction.EXIT

\* handleInstallModify().  checked, soundSupported and sound are the inputs of
\* promptHookSelection; action is the answer to promptConfirmation or "cancel";
\* readFails and env are the file system's choices in saveHooksToSettings,
\* which wraps every error of load, mergeHooks and save in an Error.
InstallModify(checked, soundSupported, sound, action, f, b, dir, readFails, env, m, o) ==
    LET p == PromptHookSelection(checked, soundSupported, sound)
        selectedHooks == Selection(p.items)
        g == GenerateHooks(ParseHookSelection(selectedHooks), m, o)
        l == LoadResult(Null, f, readFails)
        mr == MergeDoc(l.data, g.newHooks)
        sv == SaveResult(mr.data, TRUE, Undefined, f, b, dir, env)
        asked == <<"promptHookSelection", "validateHookSelection", "promptConfirmation">>
        generated == asked \o <<"parseHookSelection", "generateHooks">>
    IN
    IF p.thrown # ""
    THEN Ended(p.thrown, <<"promptHookSelection">>, "", f, b, dir)
    ELSE IF ~ValidateHookSelection(selectedHooks).isValid
    THEN Ended("InvalidInputError", <<"promptHookSelection", "validateHookSelection">>,
               "", f, b, dir)
    ELSE IF action = "cancel" \/ ExitChosen(action)
    THEN Ended("UserCancelledError", asked, action, f, b, dir)
    ELSE IF g.thrown # ""
    THEN Ended("Error", generated, action, f, b, dir)
    ELSE IF l.err # ""
    THEN Ended("Error", generated \o <<"load">>, action, f, b, dir)
    ELSE IF mr.err # ""
    THEN Ended("Error", generated \o <<"load", "mergeHooks">>, action, f, b, dir)
    ELSE Ended(IF sv.o.err = "" THEN "" ELSE "Error",
               generated \o <<"load", "mergeHooks", "save">>, action,
               sv.file, sv.backup, sv.dir)

\* the selections promptRemovalSelection can return for the hooks installed:
\* nothing checked, the first hook, or all of them
Removals(installed) ==
    {<<>>, installed} \cup (IF installed = <<>> THEN {} ELSE {<<installed[1]>>})

\* handleRemove().  selected is what the checkbox of promptRemovalSelection
\* returns or Left; result is the answer to promptRemovalConfirmation
\* ("confirm", "cancel", or "left" when the prompt is left)
Remove(selected, result, f, b, dir, readFails, env) ==
    LET l == LoadResult(Null, f, readFails)
        names == GetInstalledHookNames(TRUE, l.data)
        r == RemoveDoc(l.data, selected)
        sv == SaveResult(r.data, TRUE, Undefined, f, b, dir, env)
        found == <<"load", "getInstalledHookNames">>
        asked == found \o <<"promptRemovalSelection", "promptRemovalConfirmation">>
    IN
    IF l.err # "" THEN Ended("SettingsError", <<"load">>, "", f, b, dir)
    ELSE IF names.err # "" THEN Ended("TypeError", found, "", f, b, dir)
    ELSE IF Len(names.ans.a) = 0 THEN Ended("", found, "", f, b, dir)
    ELSE IF selected = Left \/ selected = <<>>
    THEN Ended("UserCancelledError", found \o <<"promptRemovalSelection">>, "", f, b, dir)
    ELSE IF result # "confirm"
    THEN Ended("UserCancelledError", asked, result, f, b, dir)
    ELSE IF r.err # ""
    THEN Ended(ErrorClass(r.err), asked \o <<"removeHooks">>, result, f, b, dir)
    ELSE Ended(IF sv.o.err = "" THEN "" ELSE ErrorClass(sv.o.err),
               asked \o <<"removeHooks", "save">>, result, sv.file, sv.backup, sv.dir)

\* handleViewConfiguration(): analyzeConfiguration on a new store
ViewConfiguration(f, b, dir, readFails) ==
    LET l == LoadResult(Null, f, readFails)
        r == IF l.err # "" THEN Answer(l, Undefined) ELSE AnalyzeDoc(l.data)
    IN  Ended(IF r.err = "" THEN "" ELSE ErrorClass(r.err),
              <<"analyzeConfiguration", "displayConfiguration">>, "", f, b, dir)

\* a loop that catches nothing
CaughtNever(error) == FALSE

\* the catch of the loop: error instanceof UserCancelledError
Caught(error) == error = "UserCancelledError"

\* handleError: the exit code
HandleError(error) == IF error = "UserCancelledError" THEN Num("0") ELSE Num("1")

MaxTurns == 2

InitMenu ==
    /\ InitDisk
    /\ pc = [s \in Stores |-> "start"]
    /\ nh = [s \in Stores |-> Undefined]
    /\ argument = NotAString
    /\ out = NoOut
    /\ platforms = InitialPlatforms
    /\ os \in Systems
    /\ exitCode = Undefined

\* one pass of the loop body up to the prompt that follows the handler: r is
\* how the prompt or the handler ended
Turn(op, r) ==
    /\ last' = [NoOp EXCEPT !.op = op, !.arg = Str(r.answer), !.names = r.steps,
                            !.err = r.raised, !.fpre = file, !.bpre = backup,
                            !.dpre = dirExists]
    /\ nops' = nops + 1
    /\ file' = r.file
    /\ backup' = r.backup
    /\ dirExists' = r.dir
    /\ pc' = [pc EXCEPT ![st] = IF r.raised = "" THEN "next"
                                ELSE IF Caught(r.raised) THEN "menu" ELSE "exited"]
    /\ exitCode' = IF r.raised = "" \/ Caught(r.raised) THEN exitCode
                   ELSE HandleError(r.raised)
    /\ UNCHANGED <<data, loaded, nh, buf, seen, hist, argument, out, platforms, os>>

AtMenu == pc[st] = "menu" /\ nops < MaxTurns

\* main up to the loop: the platform check
StartMain ==
    /\ pc[st] = "start"
    /\ LET raised == IF IsAnyPlatformSupported(platforms, os) THEN ""
                     ELSE "UnsupportedPlatformError"
       IN
       /\ last' = [NoOp EXCEPT !.op = "isNotificationSupported", !.err = raised,
                               !.fpre = file, !.bpre = backup]
       /\ pc' = [pc EXCEPT ![st] = IF raised = "" THEN "menu" ELSE "exited"]
       /\ exitCode' = IF raised = "" THEN exitCode ELSE HandleError(raised)
    /\ UNCHANGED <<file, backup, dirExists, data, loaded, nh, buf, seen, hist, nops,
                   argument, out, platforms, os>>

\* promptMainMenu() is left (UserCancelledError) or fails with another error
MenuPromptRaises ==
    /\ AtMenu
    /\ \E raised \in {"UserCancelledError", "Error"} :
         Turn("promptMainMenu", Ended(raised, <<>>, "", file, backup, dirExists))

\* MainMenuAction.EXIT
MenuExit ==
    /\ AtMenu
    /\ last' = [NoOp EXCEPT !.op = "promptMainMenu", !.arg = Str("EXIT"),
                            !.fpre = file, !.bpre = backup]
    /\ pc' = [pc EXCEPT ![st] = "done"]
    /\ UNCHANGED <<file, backup, dirExists, data, loaded, nh, buf, seen, hist, nops,
                   argument, out, platforms, os, exitCode>>

\* MainMenuAction.VIEW_CONFIG
HandleViewConfiguration ==
    /\ AtMenu
    /\ \E readFails \in ReadOutcomes(FALSE) :
         Turn("handleViewConfiguration",
              ViewConfiguration(file, backup, dirExists, readFails))

\* MainMenuAction.INSTALL_MODIFY
HandleInstallModify ==
    /\ AtMenu
    /\ \E checked \in {Left, <<>>, <<HookSelection.ON_NOTIFICATION>>,
                        <<HookSelection.ON_STOP>>,
                        <<HookSelection.ON_NOTIFICATION, HookSelection.ON_STOP>>},
          soundSupported \in BOOLEAN, sound \in {"yes", "no", "cancel"},
          action \in {ConfirmationAction.INSTALL, ConfirmationAction.EXIT, "cancel"},
          readFails \in ReadOutcomes(FALSE), env \in Envs :
         \* the sound prompt is shown only where sound is supported, the
         \* file system is reached only after Install was chosen
         /\ ~soundSupported => sound = "no"
         /\ action # ConfirmationAction.INSTALL => ~readFails /\ env = Env("ok", "ok", "ok")
         /\ env.mkdir = "fail" => ~dirExists
         /\ env.copy = "fail" => file.exists
         /\ Turn("handleInstallModify",
                 InstallModify(checked, soundSupported, sound, action, file, backup,
                               dirExists, readFails, env, platforms, os))

\* MainMenuAction.REMOVE
HandleRemove ==
    /\ AtMenu
    /\ \E readFails \in ReadOutcomes(FALSE), env \in Envs,
          result \in {"confirm", "cancel", "left"} :
         LET l == LoadResult(Null, file, readFails) IN
         \E selected \in {Left} \cup
                         (IF l.err = "" /\ ~Nullish(l.data)
                          THEN Removals(InstalledHookNames(l.data)) ELSE {}) :
           \* save is reached only after the removal was confirmed
           /\ result # "confirm" => env = Env("ok", "ok", "ok")
           /\ env.mkdir = "fail" => ~dirExists
           /\ env.copy = "fail" => file.exists
           /\ Turn("handleRemove",
                   Remove(selected, result, file, backup, dirExists, readFails, env))

\* the prompt after a handler: back to the menu, exit, or the prompt fails
\* or is left, which main takes as exit
WhatNext ==
    /\ pc[st] = "next"
    /\ \E result \in {"menu", "exit", "raised"} :
         /\ last' = [NoOp EXCEPT !.op = "whatNext", !.arg = Str(result),
                                 !.fpre = file, !.bpre = backup]
         /\ pc' = [pc EXCEPT ![st] = IF result = "menu" THEN "menu" ELSE "done"]
    /\ UNCHANGED <<file, backup, dirExists, data, loaded, nh, buf, seen, hist, nops,
                   argument, out, platforms, os, exitCode>>

NextMenu ==
    \/ StartMain
    \/ MenuPromptRaises
    \/ MenuExit
    \/ HandleViewConfiguration
    \/ HandleInstallModify
    \/ HandleRemove
    \/ WhatNext

SpecMenu == InitMenu /\ [][NextMenu]_vars

(***************************************************************************)
(* Properties of the store                                                 *)
(***************************************************************************)
\* what a new store instance reads from the settings file, no read failing
FreshLoad == LoadResult(Null, file, FALSE)

\* property key of x is present in y with a deep-equal value, or absent in both
SameAt(x, y, key) ==
    /\ HasKey(x, key) <=> HasKey(y, key)
    /\ DeepEqual(Get(x, key), Get(y, key))

KeySet(v) == {Keys(v)[i] : i \in 1..Len(Keys(v))}

\* the call reached the statements that change the document
Mutated == last.err \in {"", "validate"} \/ last.why = "hookItem.hooks"

\* C1: for every structurally valid document d, save(d) followed by load() on
\* the same path returns a document deep-equal to d: the file a successful
\* save leaves parses to the saved document, and the load() made right after
\* it returns that document unless the read itself fails.
SaveLoadRoundTrip ==
    /\ (last.op = "save" /\ last.err = "")
          => /\ FreshLoad.err = ""
             /\ DeepEqual(FreshLoad.data,
                          IF last.arg # Undefined THEN last.arg ELSE last.pre)
    /\ (last.op = "load" /\ last.after = "save" /\ last.err # "read")
          => /\ last.err = ""
             /\ DeepEqual(data[st], last.pre)

SaveLoadRoundTripWitness ==
    /\ last.op = "load" /\ last.after = "save" /\ last.err = ""
    /\ data[st] = DocFull
    /\ last.fpre = FileOf(Stringify(DocFull))

\* C2: mergeHooks(newHooks) replaces the whole value of every event key present
\* in newHooks: after mergeHooks({A: X}) and then mergeHooks({A: Y}), hooks.A
\* is Y and nothing of X is retained.
MergeOverwrites ==
    (last.op = "mergeHooks" /\ Mutated)
       => \A key \in Range(last.names) :
             /\ HasKey(HooksIn(data[st]), key)
             /\ Get(HooksIn(data[st]), key) = Get(last.arg, key)

MergeOverwritesWitness ==
    /\ last.op = "mergeHooks" /\ last.err = "" /\ last.after = "mergeHooks"
    /\ last.arg = Obj(<<Member("Notification", GY)>>)
    /\ Get(HooksIn(last.pre), "Notification") = GX
    /\ Get(HooksIn(last.pre), "Stop") = GW
    /\ Get(HooksIn(data[st]), "Notification") = GY

\* every top-level key other than hooks, and every event key outside names,
\* is in d1 what it is in d0
FrameKept(d0, d1, names) ==
    /\ \A key \in (KeySet(d0) \cup KeySet(d1)) \ {"hooks"} : SameAt(d0, d1, key)
    /\ \A key \in (KeySet(HooksIn(d0)) \cup KeySet(HooksIn(d1))) \ Range(names) :
          SameAt(HooksIn(d0), HooksIn(d1), key)

\* C3: mergeHooks(newHooks) and removeHooks(names) leave unchanged every hooks
\* entry whose event key is not in newHooks / names and every top-level key
\* other than hooks; from hooks {Notification, Stop}, removeHooks of
\* Notification leaves exactly hooks.Stop with its value; and a save() made
\* after them writes a file from which a fresh load reads every key of the
\* document as it stood.
FramePreserved ==
    /\ (last.op \in {"mergeHooks", "removeHooks"} /\ ~Nullish(last.pre))
          => FrameKept(last.pre, data[st], last.names)
    /\ (/\ last.op = "removeHooks" /\ last.names = <<"Notification">> /\ Mutated
        /\ KeySet(HooksIn(last.pre)) = {"Notification", "Stop"}
        /\ Truthy(Get(HooksIn(last.pre), "Notification")))
          => /\ Keys(HooksIn(data[st])) = <<"Stop">>
             /\ Get(HooksIn(data[st]), "Stop") = Get(HooksIn(last.pre), "Stop")
    /\ (/\ last.op = "save" /\ last.err = "" /\ last.arg = Undefined
        /\ last.after \in {"mergeHooks", "removeHooks"})
          => /\ FreshLoad.err = ""
             /\ FrameKept(last.pre, FreshLoad.data, <<>>)

FramePreservedWitness ==
    /\ last.op = "save" /\ last.err = "" /\ last.arg = Undefined
    /\ last.after = "removeHooks"
    /\ Keys(HooksIn(FreshLoad.data)) = <<"Stop">>
    /\ Get(HooksIn(FreshLoad.data), "Stop") = GY
    /\ Get(FreshLoad.data, "theme") = Str("dark")
    /\ last.fpre = FileOf(Stringify(DocFull))

\* C4: a failed save leaves the settings file unchanged when it fails because
\* there is no document, because validation fails, or because of an I/O error
\* before the write; the file is written only after validation has passed.
FailedSaveKeepsFile ==
    last.op = "save"
       => /\ (last.err # "" /\ last.why # "writeFileSync") => file = last.fpre
          /\ file # last.fpre => ValidateSettings(data[st]).err = ""

FailedSaveKeepsFileWitness ==
    /\ last.op = "save" /\ last.err = "validate" /\ last.arg = DocBadEvent
    /\ last.fpre = FileOf(Stringify(DocFull))
    /\ file = last.fpre

\* C6: for every loaded document and every list of names, removeHooks(names)
\* called twice in a row leaves the document the first call left.
RemoveTwiceSame ==
    (last.op = "removeHooks" /\ last.again /\ last.wasLoaded)
       => data[st] = last.pre

RemoveTwiceSameWitness ==
    /\ last.op = "removeHooks" /\ last.again /\ last.wasLoaded /\ nops = 2
    /\ last.names = <<"Notification", "Stop">>
    /\ last.fpre = FileOf(Stringify(DocFull))
    /\ data[st] = Obj(<<Member("theme", Str("dark"))>>)

\* no name of the call is an installed event key of the document it worked on
NoneInstalled ==
    /\ last.op = "removeHooks"
    /\ last.err \notin {"read", "parse"}
    /\ Range(last.names) \cap Range(InstalledHookNames(last.pre)) = {}

RemoveInstalledDropsHooks ==
    (/\ last.op = "removeHooks"
     /\ last.err \notin {"read", "parse"}
     /\ ~Nullish(last.pre)
     /\ last.names = InstalledHookNames(last.pre))
       => ~HasKey(data[st], "hooks")

\* C9: an empty hooks object is never persisted: in every state reached through
\* load, mergeHooks, removeHooks and removeAllHooks, save() never writes a
\* document whose hooks value is an empty map.
NoEmptyHooksPersisted ==
    (last.op = "save" /\ last.arg = Undefined /\ last.err = "")
       => ~(FreshLoad.err = "" /\ HooksIn(FreshLoad.data) = Obj(<<>>))

\* C10: after a successful save() over an existing settings file, when the
\* backup copy succeeded, .backup holds exactly the content the settings file
\* had immediately before that save.
BackupHoldsPrior ==
    (last.op = "save" /\ last.err = "" /\ last.fpre.exists /\ last.bok)
       => backup = last.fpre

BackupHoldsPriorWitness ==
    /\ last.op = "save" /\ last.err = "" /\ last.fpre.exists /\ last.bok
    /\ file # last.fpre
    /\ backup = last.fpre
    /\ backup # last.bpre

LoadOutcomes ==
    last.op = "load"
       => /\ (~last.fpre.exists \/ (last.fpre.content = <<>> /\ last.err # "read"))
                => /\ last.err = ""
                   /\ data[st] = Obj(<<>>)
          /\ ~last.fpre.exists => last.err = ""
          /\ (/\ last.fpre.exists /\ last.fpre.content # <<>>
              /\ ~JSONParse(last.fpre.content).ok /\ last.err # "read")
                => /\ last.err = "parse"
                   /\ last.why = "Invalid JSON"
                   /\ data[st] = last.pre
          /\ last.err = "" => loaded[st]
          /\ (last.err # "" /\ ~last.wasLoaded) => ~loaded[st]

LoadOutcomesWitness ==
    /\ last.op = "load" /\ last.err = "parse" /\ ~loaded[st]
    /\ last.fpre = FileOf(<<P("{")>>)
    /\ data[st] = Null /\ file = last.fpre

\* the document is what mergeHooks(H) makes of the empty document
MergedIntoEmpty(d, H) == d = Obj(<<Member("hooks", H)>>)

\* C14: with no settings file (and possibly no parent directory),
\* mergeHooks(H) as the first call on a new store loads an empty document and
\* leaves {hooks: H}; the save() that follows creates the directory and the
\* file, from which a new store instance loads a document whose hooks is
\* exactly H, and so does a load() on the same store.
FreshInstall ==
    /\ (/\ last.op = "mergeHooks" /\ nops = 1 /\ ~last.fpre.exists
        /\ ValidateSettings(Obj(<<Member("hooks", last.arg)>>)).err = "")
          => /\ last.err = ""
             /\ loaded[st]
             /\ MergedIntoEmpty(data[st], last.arg)
    /\ (/\ last.op = "save" /\ last.arg = Undefined /\ last.err = ""
        /\ nops = 2 /\ last.after = "mergeHooks" /\ ~last.fpre.exists)
          => /\ dirExists
             /\ file.exists
             /\ FreshLoad.err = ""
             /\ \E H \in MergeArgs :
                   /\ MergedIntoEmpty(last.pre, H)
                   /\ HooksIn(FreshLoad.data) = H
    /\ (/\ last.op = "load" /\ last.after = "save" /\ last.err # "read"
        /\ \E H \in MergeArgs : MergedIntoEmpty(last.pre, H))
          => /\ last.err = ""
             /\ HooksIn(data[st]) = HooksIn(last.pre)

FreshInstallWitness ==
    /\ last.op = "save" /\ last.arg = Undefined /\ last.err = ""
    /\ nops = 2 /\ last.after = "mergeHooks"
    /\ ~last.fpre.exists /\ ~last.dpre
    /\ dirExists /\ file.exists
    /\ HooksIn(FreshLoad.data) = Obj(<<Member("Notification", GY)>>)

\* a hook group as the specification defines it: an object exposing a
\* sequence named hooks
IsGroup(g) == g.k = "obj" /\ HasKey(g, "hooks") /\ Get(g, "hooks").k = "arr"

\* an event value that is not a sequence of hook groups
BadEvent(m) == ~(m.k = "arr" /\ \A i \in 1..Len(m.a) : IsGroup(Val(m.a[i])))

\* the event keys of a document's hooks map whose value is malformed
OffendingKeys(d) ==
    IF d.k = "obj" /\ HooksIn(d).k = "obj"
    THEN {m.n : m \in {x \in Range(HooksIn(d).a) : BadEvent(x)}}
    ELSE {}

\* the structural rule as the specification states it
WellFormed(d) ==
    /\ d.k = "obj"
    /\ HasKey(d, "hooks") => HooksIn(d).k = "obj" /\ OffendingKeys(d) = {}

\* the call got as far as _validateSettings
ValidationReached ==
    /\ last.op \in {"save", "mergeHooks", "removeHooks"}
    /\ last.err \notin {"read", "parse", "mergeHooks"}
    /\ last.why \notin {"No data to save", "mkdirSync"}

\* C15: structural validation accepts a document if and only if it is an
\* object, hooks is absent or is an object, every value under hooks is a
\* sequence and every element of it is an object exposing a sequence named
\* hooks; a document whose hooks key holds null is rejected, so no save()
\* of such a document returns without error.
ValidationAcceptsExactly ==
    /\ last.op # "" => (ValidateSettings(data[st]).err = "" <=> WellFormed(data[st]))
    /\ (last.op = "save" /\ last.err = "") => WellFormed(data[st])

\* C16: whichever of save, mergeHooks or removeHooks validates a document
\* with a malformed event under hooks, the call raises a Validate error that
\* names an offending event key, never an error of another kind.
ViolationRaisesValidate ==
    (ValidationReached /\ OffendingKeys(data[st]) # {})
       => /\ last.err = "validate"
          /\ last.key \in OffendingKeys(data[st])

\* C12: getData, getHooks, hasHooks, getInstalledHookNames and hasHook fail
\* with the not-loaded error in every state where load never ran on the
\* store, also after save(d) gave it a document; once a load has succeeded
\* none of them raises that error. The call that was made answers as the
\* store state says.
QueriesNeedLoad ==
    /\ ~last.loadCalled =>
          \A q \in Queries : QueryResult(q, loaded[st], data[st]).err = "notLoaded"
    /\ last.loadOk =>
          \A q \in Queries : QueryResult(q, loaded[st], data[st]).err # "notLoaded"
    /\ last.op \in QueryNames =>
          /\ ~last.loadCalled => last.err = "notLoaded"
          /\ last.loadOk => last.err # "notLoaded"

\* hasHooks right after a successful save(d) on a store that never loaded: the
\* store holds d, the file is written, the query fails
QueriesNeedLoadWitness ==
    /\ last.op = "hasHooks"
    /\ last.err = "notLoaded"
    /\ last.after = "save"
    /\ ~last.loadCalled
    /\ data[st] = DocFull
    /\ file = FileOf(Stringify(DocFull))

\* C17: load, mergeHooks, removeHooks, removeAllHooks, analyzeConfiguration
\* and the queries leave the settings file, the backup file and the directory
\* as they were, so another store instance loading the path reads what it
\* would have read before the call.
SaveSoleWritePath ==
    last.op \notin {"", "save"} =>
       /\ file = last.fpre
       /\ backup = last.bpre
       /\ dirExists = last.dpre
       /\ FreshLoad = LoadResult(Null, last.fpre, FALSE)

\* a merge of Notification into a loaded foreign document: the store has the
\* event, a new instance loading the file does not
SaveSoleWritePathWitness ==
    /\ last.op = "mergeHooks"
    /\ last.err = ""
    /\ last.fpre = FileOf(Stringify(DocForeign))
    /\ HasKey(HooksIn(data[st]), "Notification")
    /\ FreshLoad.err = ""
    /\ ~HasKey(HooksIn(FreshLoad.data), "Notification")

\* save reached the backup copy of an existing settings file and the copy
\* failed
BackupCopyFailed ==
    /\ last.op = "save"
    /\ last.fpre.exists
    /\ ~last.bok
    /\ last.wasLoaded \/ data[st] # Null
    /\ ValidateSettings(data[st]).err = ""

\* C23: when copying the existing settings file to the backup fails during
\* save, save still writes the new document to the settings file and returns
\* without error.
BackupFailureNotFatal ==
    BackupCopyFailed =>
       /\ last.err = ""
       /\ file = FileOf(Stringify(data[st]))

\* the copy failed and the save replaced the content of the file
BackupFailureNotFatalWitness ==
    /\ BackupCopyFailed
    /\ last.err = ""
    /\ file # last.fpre
    /\ file = FileOf(Stringify(data[st]))

\* the value of event E in document d is a group generateHooks builds
InstalledAs(d, E, name) == Get(HooksIn(d), E) = Arr(<<Group(name)>>)

\* the part of the status about event E
StatusOf(status, E) ==
    Get(status, IF E = "Notification" THEN "notifications" ELSE "stop")

\* C24: analyzeConfiguration loads a store that is not loaded; it reports an
\* event installed with a command of createCommand as enabled, with hasSound
\* true exactly when the command was built with sound on macOS, and an event
\* that is not installed as not enabled and without sound.
AnalyzeReportsSound ==
    last.op = "analyzeConfiguration" =>
       /\ (~last.wasLoaded /\ last.err \notin {"read", "parse"}) =>
             loaded[st] /\ data[st] = FreshLoad.data
       /\ (/\ last.err \notin {"read", "parse"}
           /\ data[st].k = "obj"
           /\ \A E \in {"Notification", "Stop"} :
                 \/ ~HasKey(HooksIn(data[st]), E)
                 \/ \E name \in DOMAIN Generated : InstalledAs(data[st], E, name))
             => last.err = ""
       /\ last.err = "" =>
             \A E \in {"Notification", "Stop"} :
                /\ \A name \in DOMAIN Generated :
                      InstalledAs(data[st], E, name) =>
                         /\ Get(StatusOf(last.ans, E), "enabled") = Bool(TRUE)
                         /\ Get(StatusOf(last.ans, E), "hasSound")
                               = Bool(/\ Generated[name].platform = "macos"
                                      /\ Generated[name].sound)
                /\ ~HasKey(HooksIn(data[st]), E) =>
                      /\ Get(StatusOf(last.ans, E), "enabled") = Bool(FALSE)
                      /\ Get(StatusOf(last.ans, E), "hasSound") = Bool(FALSE)

\* a Windows command asked with sound under Stop and a macOS command with
\* sound under Notification, both merged before the analysis
AnalyzeReportsSoundWitness ==
    /\ last.op = "analyzeConfiguration"
    /\ last.err = ""
    /\ last.after = "mergeHooks"
    /\ InstalledAs(data[st], "Stop", "notifyW")
    /\ InstalledAs(data[st], "Notification", "notifyB")
    /\ Get(StatusOf(last.ans, "Stop"), "hasSound") = Bool(FALSE)
    /\ Get(StatusOf(last.ans, "Notification"), "hasSound") = Bool(TRUE)

\* C25: every document a successful load() leaves in the store is a key/value
\* map, also when the settings file holds valid JSON that is not an object,
\* and no query asked right after a successful load fails with a TypeError.
LoadedDocumentIsMap ==
    /\ (last.op = "load" /\ last.err = "") => data[st].k = "obj"
    /\ (last.op \in QueryNames /\ last.after = "load") => last.err # "TypeError"

\* C26: a load() that fails leaves the loaded flag and the document as they
\* were, so every query answers as before the call; a load() that succeeds
\* leaves the store loaded with what the settings file holds.
FailedLoadKeepsState ==
    last.op = "load" =>
       /\ last.err # "" =>
             /\ last.err \in {"read", "parse"}
             /\ data[st] = last.pre
             /\ loaded[st] = last.wasLoaded
             /\ \A q \in Queries :
                   QueryResult(q, loaded[st], data[st])
                      = QueryResult(q, last.wasLoaded, last.pre)
       /\ last.err = "" =>
             /\ loaded[st]
             /\ data[st] = FreshLoad.data

\* a re-load fails after an unsaved merge: the store still holds the merged
\* event, which the settings file does not
FailedLoadKeepsStateWitness ==
    /\ last.op = "load"
    /\ last.err = "read"
    /\ last.after = "mergeHooks"
    /\ last.wasLoaded /\ loaded[st]
    /\ HasKey(HooksIn(data[st]), "Notification")
    /\ FreshLoad.err = ""
    /\ ~HasKey(HooksIn(FreshLoad.data), "Notification")

\* C27: mergeHooks and removeHooks change the document before they validate
\* it and do not roll back: when either raises a Validate error the changed,
\* invalid document stays in memory; a save() of a document that fails
\* validation raises an error and leaves the settings file and the backup as
\* they were; a save that changes the settings file wrote a document that
\* passes validation.
NoRollback ==
    /\ (last.op = "mergeHooks" /\ last.err = "validate") =>
          /\ data[st] = MergeDoc(last.pre, last.arg).data
          /\ \A key \in Range(last.names) :
                Get(HooksIn(data[st]), key) = Get(last.arg, key)
          /\ ValidateSettings(data[st]).err = "validate"
    /\ (last.op = "removeHooks" /\ last.err = "validate") =>
          /\ data[st] = RemoveDoc(last.pre, last.names).data
          /\ ValidateSettings(data[st]).err = "validate"
    /\ (/\ last.op = "save" /\ last.arg = Undefined
        /\ last.wasLoaded \/ last.pre # Null
        /\ ValidateSettings(last.pre).err = "validate") =>
          /\ last.err \in {"validate", "write"}
          /\ last.dpre => last.err = "validate"
          /\ data[st] = last.pre
          /\ file = last.fpre
          /\ backup = last.bpre
    /\ (last.op = "save" /\ file # last.fpre) => ValidateSettings(data[st]).err = ""

\* save() of the document a failed merge left: the full document with a
\* Notification event that is a plain object, over a settings file that
\* holds the full document
NoRollbackWitness ==
    /\ last.op = "save" /\ last.arg = Undefined
    /\ last.err = "validate"
    /\ last.key = "Notification"
    /\ Get(HooksIn(data[st]), "Notification") = Group("notifyA")
    /\ HasKey(data[st], "theme")
    /\ file = FileOf(Stringify(DocFull))

(***************************************************************************)
(* Properties of the commands                                              *)
(***************************************************************************)
\* what a command of the platform starts with and ends with
Opening(platform) == IF platform = "macos" THEN MacOSText.prefix ELSE WindowsText.prefix

Closing(platform) == IF platform = "macos" THEN MacOSText.quote ELSE WindowsText.closing

\* C18: every command createCommand returns, for any non-empty string action
\* and either sound flag, is non-empty, starts and ends with the wrapping of
\* its platform and is accepted by the validator of its platform.
CreatedCommandAccepted ==
    /\ (out.fn = "createCommand" /\ ~out.thrown) =>
          /\ out.text # <<>>
          /\ StartsWith(out.text, Opening(out.platform))
          /\ EndsWith(out.text, Closing(out.platform))
          /\ ValidateOn(out.platform, JsString(out.text))
    /\ (out.fn = "validate" /\ out.built) => out.valid

\* the characters no sanitized text is to contain
Unsafe == Stripped \cup {";", "|", "&"}

\* C19: the text returned by sanitizeInput, by either PowerShell sanitizer, by
\* sanitizeForAppleScript and by the escaping inside the macOS createCommand
\* contains no backtick, dollar sign, double quote, backslash, semicolon, pipe
\* or ampersand, whatever the input.
SanitizedHasNoUnsafe ==
    out.fn \in Sanitizers => Range(out.text) \cap Unsafe = {}

\* C20: validate returns false for every string that contains a semicolon, a
\* pipe or a double ampersand followed by a space and rm, nc or curl, on both
\* platforms, and for every string that contains Invoke-Expression on
\* Windows, whatever precedes or follows, the platform's wrapping included.
ValidatorRejectsChaining ==
    out.fn = "validate" =>
       /\ Includes(out.text, Rejected.semicolonRm) => ~out.valid
       /\ Includes(out.text, Rejected.pipeNc) => ~out.valid
       /\ Includes(out.text, Rejected.andCurl) => ~out.valid
       /\ (out.platform = "windows" /\ Includes(out.text, Rejected.invokeExpression))
             => ~out.valid

\* Invoke-Expression inside the Windows wrapping: no chaining operator in the
\* string, the denylist of the Windows validator rejects it
ValidatorRejectsChainingWitness ==
    /\ out.fn = "validate"
    /\ out.platform = "windows"
    /\ out.text = Wrapped("windows", Rejected.invokeExpression)
    /\ BaseValidate(JsString(out.text))
    /\ ~out.valid

\* C21: the command createCommand returns on macOS contains the sound part,
\* sound name "Ping", exactly when withSound is true, and always contains the
\* escaped action; on Windows the command is the same for both values of
\* withSound and contains no sound part.
SoundClauseIffAsked ==
    (out.fn = "createCommand" /\ ~out.thrown) =>
       /\ out.platform = "macos" =>
             /\ Includes(out.text, MacOSText.sound) <=> out.sound
             /\ Includes(out.text, EscapeForAppleScript(argument.text))
       /\ out.platform = "windows" =>
             /\ ~Includes(out.text, MacOSText.sound)
             /\ out.text = WindowsCreateCommand(argument, ~out.sound).text

\* createCommand of the action Completed with sound on macOS
SoundClauseIffAskedWitness ==
    /\ out.fn = "createCommand"
    /\ out.platform = "macos"
    /\ out.sound
    /\ argument = JsString(<<"C", "o", "m", "p", "l", "e", "t", "e", "d">>)
    /\ Includes(out.text, MacOSText.sound)
    /\ Includes(out.text, argument.text)

(***************************************************************************)
(* Properties of the registry                                              *)
(***************************************************************************)
\* every register call made so far registered an id with its own class
OwnClasses ==
    \A n \in 1..Len(hist) :
       \E i \in 1..Len(InitialPlatforms) : hist[n] = InitialPlatforms[i]

\* C22: the registry keeps its ids in the order macos, windows whatever is
\* registered again; getSupportedPlatform returns the class of the first
\* entry in that order whose isSupported() is true and throws exactly when
\* there is none; isAnyPlatformSupported is true exactly when
\* getSupportedPlatform returns; after register calls that register the ids
\* with their classes again the registry and the result are as at the start.
RegistryOrderFixed ==
    /\ [i \in 1..Len(platforms) |-> platforms[i].name] = <<"macos", "windows">>
    /\ out.fn = "getSupportedPlatform" =>
          /\ out.thrown <=> \A i \in 1..Len(platforms) : ~IsSupported(platforms[i].cls, os)
          /\ ~out.thrown =>
                \E i \in 1..Len(platforms) :
                   /\ out.platform = platforms[i].cls
                   /\ IsSupported(platforms[i].cls, os)
                   /\ \A j \in 1..(i - 1) : ~IsSupported(platforms[j].cls, os)
    /\ out.fn = "isAnyPlatformSupported" =>
          (out.valid <=> ~GetSupportedPlatform(platforms, os).thrown)
    /\ OwnClasses =>
          /\ platforms = InitialPlatforms
          /\ GetSupportedPlatform(platforms, os)
                = CASE os = "darwin" -> [thrown |-> FALSE, cls |-> "MacOSPlatform"]
                    [] os = "win32" -> [thrown |-> FALSE, cls |-> "WindowsPlatform"]
                    [] OTHER -> [thrown |-> TRUE, cls |-> ""]

\* on Windows, after macos and windows were registered again, the second
\* entry is returned
RegistryOrderFixedWitness ==
    /\ Len(hist) >= 2
    /\ OwnClasses
    /\ hist[1].name = "macos"
    /\ os = "win32"
    /\ out.fn = "getSupportedPlatform"
    /\ out.platform = "WindowsPlatform"

(***************************************************************************)
(* Properties of the hook selection                                        *)
(***************************************************************************)
\* C29: validateHookSelection accepts a selection exactly when it finds no
\* error; parseHookSelection of an accepted selection enables at least one
\* event and sets a sound flag only for an enabled event; every selection
\* promptHookSelection returns is accepted; the hooks map generateHooks builds
\* from an accepted selection is not empty.
AcceptedSelectionEnablesEvent ==
    /\ out.fn = "validateHookSelection" =>
          /\ out.valid <=> out.text = <<>>
          /\ out.valid =>
                LET config == ParseHookSelection(argument) IN
                /\ config.notificationEnabled \/ config.stopEnabled
                /\ config.notificationWithSound => config.notificationEnabled
                /\ config.stopWithSound => config.stopEnabled
          /\ last.op = "promptHookSelection" => out.valid
    /\ pc[st] = "generated" =>
          /\ Keys(nh[st]) # <<>>
          /\ HasKey(nh[st], "Notification") <=> ParseHookSelection(argument).notificationEnabled
          /\ HasKey(nh[st], "Stop") <=> ParseHookSelection(argument).stopEnabled

\* the selection of both events with sound, as the prompts return it,
\* accepted and turned into hooks
AcceptedSelectionEnablesEventWitness ==
    /\ pc[st] = "generated"
    /\ last.op = "promptHookSelection"
    /\ out.valid
    /\ argument.items = <<"onNotification", "onStop", "onNotificationSound", "onStopSound">>
    /\ Keys(nh[st]) = <<"Notification", "Stop">>

(***************************************************************************)
(* Properties of the interactive program                                   *)
(***************************************************************************)
Handlers == {"handleViewConfiguration", "handleInstallModify", "handleRemove"}

\* C28: the settings file and its backup change only in handleInstallModify
\* after Install was chosen at the confirmation prompt, or in handleRemove
\* after the removal was confirmed, and then by save; when Exit is chosen or
\* a prompt of handleInstallModify is left, or when the removal is declined
\* or its prompts are left, the handler raises UserCancelledError before
\* generateHooks, removeHooks or save run, and both files are as they were.
WrittenOnlyAfterConfirmed ==
    LET ran == Range(last.names)
        confirmed == \/ last.op = "handleInstallModify" /\ last.arg = Str("install")
                     \/ last.op = "handleRemove" /\ last.arg = Str("confirm")
    IN
    /\ last.op # "" /\ (file # last.fpre \/ backup # last.bpre) =>
          confirmed /\ "save" \in ran
    /\ last.op = "handleInstallModify" /\ ~confirmed =>
          /\ last.err = "UserCancelledError"
          /\ ran \cap {"generateHooks", "load", "mergeHooks", "save"} = {}
          /\ file = last.fpre /\ backup = last.bpre
    /\ last.op = "handleRemove" /\ "promptRemovalSelection" \in ran /\ ~confirmed =>
          /\ last.err = "UserCancelledError"
          /\ ran \cap {"removeHooks", "save"} = {}
          /\ file = last.fpre /\ backup = last.bpre

\* Exit chosen at the confirmation prompt of handleInstallModify, with a
\* settings file on disk
WrittenOnlyAfterConfirmedWitness ==
    /\ last.op = "handleInstallModify"
    /\ last.arg = Str("exit")
    /\ last.err = "UserCancelledError"
    /\ "promptConfirmation" \in Range(last.names)
    /\ file.exists /\ file = last.fpre
    /\ pc[st] = "menu"

\* C30: a UserCancelledError raised by the main menu prompt or by a handler
\* leaves main at the main menu with no exit code; any other error ends the
\* process with exit code 1, and nothing else calls process.exit; main
\* returns only after Exit in the main menu, or after Exit or a failed or
\* left prompt at the prompt that follows a handler; a handler that returns
\* leads to that prompt.
CancelReturnsToMenu ==
    /\ last.err = "UserCancelledError" =>
          /\ last.op \in Handlers \cup {"promptMainMenu"}
          /\ pc[st] = "menu"
          /\ exitCode = Undefined
    /\ last.err \notin {"", "UserCancelledError"} =>
          pc[st] = "exited" /\ exitCode = Num("1")
    /\ pc[st] = "exited" => last.err \notin {"", "UserCancelledError"}
    /\ pc[st] = "done" =>
          /\ exitCode = Undefined
          /\ \/ last.op = "promptMainMenu" /\ last.arg = Str("EXIT")
             \/ last.op = "whatNext" /\ last.arg \in {Str("exit"), Str("raised")}
    /\ last.op \in Handlers /\ last.err = "" => pc[st] = "next"

\* the second pass of the loop left a prompt of handleInstallModify and main
\* is at the main menu again
CancelReturnsToMenuWitness ==
    /\ last.op = "handleInstallModify"
    /\ last.err = "UserCancelledError"
    /\ nops = 2
    /\ pc[st] = "menu"
    /\ exitCode = Undefined

(***************************************************************************)
(* Properties of two racing invocations                                    *)
(***************************************************************************)
Happened(what, i) == \E n \in 1..Len(hist) : hist[n] = Event(what, i)

When(what, i) == CHOOSE n \in 1..Len(hist) : hist[n] = Event(what, i)

\* invocation w made the latest write of the settings file
LastWriter(w) ==
    /\ Happened("write", w)
    /\ \A o \in Stores : Happened("write", o) => When("write", o) <= When("write", w)

\* w wrote last, o wrote too, and w loaded before o wrote
LostUpdate(w, o) ==
    /\ w # o
    /\ LastWriter(w)
    /\ Happened("write", o)
    /\ When("load", w) < When("write", o)

\* the file holds the document invocation w wrote
HoldsDocumentOf(w) ==
    /\ file.exists
    /\ FreshLoad.err = ""
    /\ DeepEqual(FreshLoad.data, data[w])

\* C5 as claimed: the final file is the document of the invocation that wrote
\* last, and an event merged by the other invocation (and not by the last
\* writer) is absent from the file whenever the last writer loaded before the
\* other's write.
RaceOtherEventAbsent ==
    \A w, o \in Stores :
       /\ LastWriter(w) => HoldsDocumentOf(w)
       /\ LostUpdate(w, o)
             => \A key \in KeySet(nh[o]) \ KeySet(nh[w]) :
                   ~HasKey(HooksIn(FreshLoad.data), key)

\* C5 amended: the final file is the document of the invocation that wrote
\* last, which is what that invocation loaded with its own hooks merged in;
\* when the last writer loaded before the other's write, every event merged
\* only by the other invocation is in the file what it was in the document
\* the last writer loaded (absent if it was absent there), so the other's
\* value for it is lost.
RaceLastWriterWins ==
    \A w, o \in Stores :
       /\ LastWriter(w)
             => /\ HoldsDocumentOf(w)
                /\ data[w] = MergeDoc(seen[w], nh[w]).data
       /\ LostUpdate(w, o)
             => \A key \in KeySet(nh[o]) \ KeySet(nh[w]) :
                   SameAt(HooksIn(seen[w]), HooksIn(FreshLoad.data), key)

RaceLastWriterWinsWitness ==
    /\ pc = [s \in Stores |-> "done"]
    /\ LostUpdate(1, 2)
    /\ nh[1] = Obj(<<Member("Stop", GX)>>)
    /\ nh[2] = Obj(<<Member("Notification", GY)>>)
    /\ HasKey(HooksIn(data[2]), "Notification")
    /\ Keys(HooksIn(FreshLoad.data)) = <<"Stop">>

====
